---- MODULE Spec2Model ----
(***************************************************************************)
(* A model of the CMM code-intelligence indexer: the SQLite store          *)
(* (src/src/storage.py), the language-server client                        *)
(* (src/src/lsp_client.py) and the two-pass scan driver (src/src/cli.py).  *)
(***************************************************************************)
EXTENDS Integers, Sequences, FiniteSets, TLC

VARIABLES
    disk,        \* file path -> version of the bytes on disk (0: the file cannot be read)
    clock,       \* the last value datetime.now() returned
    next_id,     \* how many uuid4 values have been committed to the store
    files,       \* rows of table files, in rowid order
    entities,    \* rows of table entities, in rowid order
    metadata,    \* rows of table metadata, in rowid order
    relations,   \* rows of table relations, in rowid order
    lastCall,    \* the most recent call of the store API and how it ended
    calls,       \* how many calls of the store API were made
    process,     \* LSPClient.process: "None" or the "Popen" handle of the child
    child,       \* the language server process: "none", "alive" or "exited"
    initialized, \* LSPClient._initialized
    request_id,  \* LSPClient.request_id
    sent,        \* the messages written to the child's stdin, in order
    served,      \* how many of them the server has taken from its stdin
    server_ok,   \* the server has answered every request with a value and has not crashed
    stdout,      \* the messages in the child's stdout that the client has not read
    lspPc,       \* where the client is: "idle", or "reading" inside _read_response
    pending,     \* the client call that waits in _read_response
    lspResult,   \* the most recent client call that returned, and its value
    pc,          \* where scan_directory is
    idx,         \* position in python_files of the loop that runs
    scanned,     \* Pass 1 counter
    errors,      \* Pass 1 counter
    enable_lsp,  \* the --enable-lsp option
    stats,       \* Pass 2 counters
    probe_failed,\* is_available() returned False in this scan
    report,      \* the last completion line printed: "none", "pass1" or "pass2"
    \* cli.py: migrate_database
    db_exists,   \* the database file exists at db_path
    backup,      \* the backup file <db_path>.<from>.backup
    migration,   \* the (from, to) pair of the migrate command that runs or ran
    exit_code,   \* how the migrate command ended: "none" while it has not, "0" or "1"
    \* symbol_mapper.py: SymbolMapper
    file_entity_cache,  \* _file_entity_cache: per file, the entities loaded for it
    location_cache,     \* _location_cache: entries (file_path, line, entity id)
    mapResult,   \* how the last call of the mapper ended
    \* normalizer.py: PythonNormalizer
    raw,         \* the entity dict the parser hands to normalize_entity
    normalized,  \* the entity dict normalize_entity returned
    \* lsp_client.py: LSPClient._read_response on the text of the child's stdout
    stream,      \* the characters of the child's stdout that no read has consumed
    written,     \* how many framed messages the server has written
    readResult,  \* what the last call of _read_response returned
    \* parser.py: TreeSitterParser on the definitions of one file
    source,      \* the class and function definitions of the file, in document order
    cmm,         \* what scan_file returned: the entities of the CMMEntity
    call_sites   \* the list extract_call_sites returned

storeVars == <<disk, clock, next_id, files, entities, metadata, relations, lastCall, calls>>

lspVars == <<process, child, initialized, request_id, sent, served, server_ok, stdout, lspPc,
             pending, lspResult>>

scanVars == <<pc, idx, scanned, errors, enable_lsp, stats, probe_failed, report>>

migVars == <<db_exists, backup, migration, exit_code>>

mapVars == <<file_entity_cache, location_cache, mapResult>>

normVars == <<raw, normalized>>

readVars == <<stream, written, readResult>>

parseVars == <<source, cmm, call_sites>>

vars == <<storeVars, lspVars, scanVars, migVars, mapVars, normVars, readVars, parseVars>>

(***************************************************************************)
(* Bounds of the model.                                                    *)
(***************************************************************************)
MaxCalls == 2       \* calls of the store API in one behaviour
MaxFault == 9       \* statements of one transaction that succeed before one fails
MaxRequests == 3    \* requests one client sends in one behaviour
MaxUnread == 2      \* unread messages in the child's stdout when the server adds a notification
MaxLine == 6        \* lines of a file that a mapper call asks about
MaxNameLen == 4     \* characters of the generated entity names
MaxFrames == 2      \* framed messages the server writes in one behaviour
MaxCached == 1      \* entries of the location cache a caller adds by hand
RecursionLimit == 6 \* calls of save_file and upsert_file the interpreter's stack has room for
MaxDeepCalls == 1   \* calls of the store API with a deeply nested model in one behaviour
MaxDefs == 3        \* class and function definitions in one file
MaxBeyond == 2      \* nesting levels of a model below the recursion limit of the store

(***************************************************************************)
(* Values.                                                                 *)
(***************************************************************************)
NULL == 0                  \* SQL NULL / Python None in an id column
NoneStr == "<None>"        \* Python None / SQL NULL in a text column
MaxDepth == 100            \* recursion limit of _save_entity_recursive
FirstLine == 0             \* LSP line numbers are zero-based

Paths == {"a.py", "b.py"}
Contents == {1, 2}

Dep(name, rel_type) == [name |-> name, rel_type |-> rel_type]

Entity(name, type, visibility, docstring, cmm_type, method_kind, span, dependencies, methods) ==
    [name |-> name, type |-> type, visibility |-> visibility, docstring |-> docstring,
     cmm_type |-> cmm_type, method_kind |-> method_kind,
     line_start |-> span[1], line_end |-> span[2],
     dependencies |-> dependencies, methods |-> methods]

CMMEntity(schema_version, ents) == [schema_version |-> schema_version, entities |-> ents]

\* module_a.py of the two-file scenario: class Calculator with method add
CalculatorModel ==
    CMMEntity("v0.3",
      << Entity("Calculator", "class", "public", "", "Class", NoneStr, <<1, 3>>, <<>>,
           << Entity("add", "function", "public", "", "Method", "instance", <<2, 3>>, <<>>, <<>>) >>) >>)

\* module_b.py of the two-file scenario: use_calculator calls Calculator() and calc.add(1, 2)
UseModel ==
    CMMEntity("v0.3",
      << Entity("use_calculator", "function", "public", "", "Method", "instance", <<3, 6>>,
           << Dep("Calculator", "calls"), Dep("calc", "calls"), Dep("add", "calls") >>, <<>>) >>)

\* class NewClass(Base, Base) with a private method that calls external_thing
NewModel ==
    CMMEntity("v0.3",
      << Entity("NewClass", "class", "public", "doc", "Class", NoneStr, <<0, 2>>,
           << Dep("Base", "inherits"), Dep("Base", "inherits") >>,
           << Entity("_helper", "function", "private", "", "Method", "static", <<1, 2>>,
                << Dep("external_thing", "calls"), Dep("add", "calls") >>, <<>>) >>) >>)

ModelTable == << CalculatorModel, UseModel, NewModel >>
ModelIds == 1..Len(ModelTable)

RelTypes == {"calls", "inherits"}
Signatures == {"(a, b) -> int"}

(***************************************************************************)
(* The store: a transaction works on a copy of the tables.                 *)
(***************************************************************************)
NoFault == -1      \* fuel of a transaction in which no statement fails

\* reject: the entity names whose rows a constraint of the schema refuses (the schema file
\* is not in src/; no row is refused unless a call says so)
Db == [files |-> files, entities |-> entities, metadata |-> metadata,
       relations |-> relations, next_id |-> next_id, err |-> "ok", fuel |-> NoFault,
       reject |-> {}]

Raise(tx, e) == [tx EXCEPT !.err = e]

\* cursor.execute of one statement: it raises sqlite3.OperationalError (disk I/O error,
\* database is locked) when the fuel of the transaction is used up
Execute(tx) ==
    IF tx.err # "ok" THEN tx
    ELSE IF tx.fuel = 0 THEN Raise(tx, "OperationalError")
    ELSE IF tx.fuel > 0 THEN [tx EXCEPT !.fuel = @ - 1]
    ELSE tx

EntityIds(tx) == {tx.entities[i].id : i \in 1..Len(tx.entities)}

HasFileRow(tx, file_path) ==
    \E i \in 1..Len(tx.files) : tx.files[i].file_path = file_path

\* SELECT ... FROM files WHERE file_path = ? ; fetchone()
FileRow(tx, file_path) ==
    Head(SelectSeq(tx.files, LAMBDA r : r.file_path = file_path))

\* mutant: file_path without the UNIQUE constraint
InsertFileRow_nounique(tx0, row) ==
    LET tx == Execute(tx0)
    IN IF tx.err # "ok" THEN tx ELSE [tx EXCEPT !.files = Append(@, row)]

\* files.file_path is UNIQUE
InsertFileRow(tx0, row) ==
    LET tx == Execute(tx0)
    IN IF tx.err # "ok" THEN tx
       ELSE IF HasFileRow(tx, row.file_path) THEN Raise(tx, "IntegrityError")
       ELSE [tx EXCEPT !.files = Append(@, row)]

\* mutant: the row is stored as its own parent and the reference is not checked
InsertEntityRow_selfparent(tx0, row) ==
    [tx0 EXCEPT !.entities = Append(@, [row EXCEPT !.parent_id = row.id]),
                !.next_id = row.id]

\* entities.id is the primary key; parent_id references entities(id)
InsertEntityRow(tx0, row) ==
    LET tx == Execute(tx0)
    IN IF tx.err # "ok" THEN tx
       ELSE IF \/ row.id \in EntityIds(tx)
               \/ (row.parent_id # NULL /\ row.parent_id \notin EntityIds(tx))
               \/ row.name \in tx.reject
       THEN Raise(tx, "IntegrityError")
       ELSE [tx EXCEPT !.entities = Append(@, row), !.next_id = row.id]

\* mutant: no metadata row is written
InsertMetadataRow_skip(tx0, row) == tx0

\* metadata.entity_id is the primary key and references entities(id)
InsertMetadataRow(tx0, row) ==
    LET tx == Execute(tx0)
    IN IF tx.err # "ok" THEN tx
       ELSE IF \/ row.entity_id \notin EntityIds(tx)
               \/ \E i \in 1..Len(tx.metadata) : tx.metadata[i].entity_id = row.entity_id
       THEN Raise(tx, "IntegrityError")
       ELSE [tx EXCEPT !.metadata = Append(@, row)]

RelKey(r) == <<r.from_id, r.to_name, r.rel_type>>

RelIndex(tx, key) ==
    {i \in 1..Len(tx.relations) : RelKey(tx.relations[i]) = key}

\* relations.from_id references entities(id); UNIQUE(from_id, to_name, rel_type)
InsertRelationRow(tx0, row) ==
    LET tx == Execute(tx0)
    IN IF tx.err # "ok" THEN tx
       ELSE IF row.from_id \notin EntityIds(tx) \/ RelIndex(tx, RelKey(row)) # {}
       THEN Raise(tx, "IntegrityError")
       ELSE [tx EXCEPT !.relations = Append(@, row)]

\* ON DELETE CASCADE along entities.parent_id: the ids deleted with `ids`
RECURSIVE CascadeIds(_, _)
CascadeIds(tx, ids) ==
    LET more == {tx.entities[i].id : i \in {j \in 1..Len(tx.entities) :
                                              tx.entities[j].parent_id \in ids}}
    IN IF more \subseteq ids THEN ids ELSE CascadeIds(tx, ids \cup more)

\* mutant: the entity rows go, their metadata and relations stay
DeleteEntities_nocascade(tx0, ids) ==
    [tx0 EXCEPT !.entities = SelectSeq(@, LAMBDA r : r.id \notin ids)]

\* mutant: the old entities of the file are not deleted
DeleteEntities_none(tx, ids) == tx

\* mutant: the DELETE has no WHERE clause, every entity goes
DeleteEntities_all(tx0, ids) ==
    [tx0 EXCEPT !.entities = <<>>, !.metadata = <<>>, !.relations = <<>>]

\* DELETE FROM entities WHERE id IN ids, with the cascades to metadata and relations
DeleteEntities(tx0, ids) ==
    LET tx == Execute(tx0)
        gone == CascadeIds(tx, ids)
    IN IF tx.err # "ok" THEN tx
       ELSE [tx EXCEPT !.entities = SelectSeq(@, LAMBDA r : r.id \notin gone),
                       !.metadata = SelectSeq(@, LAMBDA r : r.entity_id \notin gone),
                       !.relations = SelectSeq(@, LAMBDA r : r.from_id \notin gone)]

(***************************************************************************)
(* SQLiteStorage._save_entity_recursive (storage.py 252-358).              *)
(***************************************************************************)
\* mutant: the seen_relations test is dropped
AlreadySeen_never(relation_key, seen_relations) == FALSE

\* mutant: every dependency counts as seen, none is stored
AlreadySeen_always(relation_key, seen_relations) == TRUE

\* `relation_key not in seen_relations` (storage.py 342-344), negated
AlreadySeen(relation_key, seen_relations) == relation_key \in seen_relations

\* the loop over entity["dependencies"] (storage.py 322-351)
RECURSIVE SaveDependencies(_, _, _, _)
SaveDependencies(tx, entity_id, dependencies, seen_relations) ==
    IF tx.err # "ok" \/ dependencies = <<>> THEN tx
    ELSE LET dep == Head(dependencies)
             relation_key == <<dep.name, dep.rel_type>>
         IN IF dep.name = "" \/ AlreadySeen(relation_key, seen_relations)
            THEN SaveDependencies(tx, entity_id, Tail(dependencies), seen_relations)
            ELSE SaveDependencies(
                   InsertRelationRow(tx, [from_id |-> entity_id, to_id |-> NULL,
                                          to_name |-> dep.name, rel_type |-> dep.rel_type,
                                          is_verified |-> FALSE]),
                   entity_id, Tail(dependencies), seen_relations \cup {relation_key})

\* mutant: no depth is too deep
TooDeep_never(depth) == FALSE

\* `if depth > 100: return` (storage.py 267-274)
TooDeep(depth) == depth > MaxDepth

\* A model may hold a run: entity.run functions of one name, each the only method of the
\* one before, the last one holding entity.methods.  The record stands for that nested
\* dict; an entity without the field is one entity.
IsRun(entity) == "run" \in DOMAIN entity

\* the levels of a run that starts at depth depth for which the function does not return
\* at `if depth > 100`
KeptLevels(entity, depth) == {j \in 1..entity.run : ~TooDeep(depth + j - 1)}

\* what the calls of _save_entity_recursive for the kept levels of a run insert when no
\* statement fails: one entities row and one metadata row each, under consecutive fresh
\* ids, each row under the row of the level above
RunInserted(tx, entity, file_path, now, parent_id, depth) ==
    LET n == Cardinality(KeptLevels(entity, depth))
    IN [tx EXCEPT
          !.entities = @ \o [j \in 1..n |->
                               [id |-> tx.next_id + j, name |-> entity.name,
                                type |-> entity.type, visibility |-> entity.visibility,
                                parent_id |-> IF j = 1 THEN parent_id ELSE tx.next_id + j - 1,
                                line_start |-> entity.line_start,
                                line_end |-> entity.line_end]],
          !.metadata = @ \o [j \in 1..n |->
                               [entity_id |-> tx.next_id + j, file_path |-> file_path,
                                raw_docstring |-> entity.docstring, signature |-> "",
                                cmm_type |-> entity.cmm_type,
                                method_kind |-> entity.method_kind, type_hint |-> NoneStr,
                                created_at |-> now, updated_at |-> now]],
          !.next_id = @ + n]

RECURSIVE SaveEntityRecursive(_, _, _, _, _, _), SaveEntityList(_, _, _, _, _, _)
SaveEntityRecursive(tx, entity, file_path, now, parent_id, depth) ==
    IF tx.err # "ok" \/ TooDeep(depth) THEN tx
    ELSE IF IsRun(entity)
    THEN LET t == RunInserted(tx, entity, file_path, now, parent_id, depth)
         IN IF KeptLevels(entity, depth) # 1..entity.run THEN t
            ELSE SaveEntityList(t, entity.methods, file_path, now, t.next_id,
                                depth + entity.run)
    ELSE LET entity_id == tx.next_id + 1      \* str(uuid.uuid4()): a value never used before
             t1 == InsertEntityRow(tx, [id |-> entity_id, name |-> entity.name,
                                        type |-> entity.type, visibility |-> entity.visibility,
                                        parent_id |-> parent_id,
                                        line_start |-> entity.line_start,
                                        line_end |-> entity.line_end])
             t2 == IF t1.err # "ok" THEN t1
                   ELSE InsertMetadataRow(t1, [entity_id |-> entity_id, file_path |-> file_path,
                                               raw_docstring |-> entity.docstring,
                                               signature |-> "",
                                               cmm_type |-> entity.cmm_type,
                                               method_kind |-> entity.method_kind,
                                               type_hint |-> NoneStr,
                                               created_at |-> now, updated_at |-> now])
             t3 == SaveDependencies(t2, entity_id, entity.dependencies, {})
         IN SaveEntityList(t3, entity.methods, file_path, now, entity_id, depth + 1)

\* `for x in xs: self._save_entity_recursive(cursor, x, file_path, now, parent_id, depth)`
SaveEntityList(tx, ents, file_path, now, parent_id, depth) ==
    IF tx.err # "ok" \/ ents = <<>> THEN tx
    ELSE SaveEntityList(SaveEntityRecursive(tx, Head(ents), file_path, now, parent_id, depth),
                        Tail(ents), file_path, now, parent_id, depth)

(***************************************************************************)
(* SQLiteStorage.save_file and upsert_file (storage.py 204-250, 360-429).  *)
(* An outcome is the committed tables, how the call ended and the clock.   *)
(***************************************************************************)
\* hashlib.md5 of the bytes: distinct versions of the bytes have distinct digests
ComputeFileHash(content) == <<"md5", content>>

Outcome(db, result, now) == [db |-> db, result |-> result, clock |-> now]

\* mutant: the stored hash is never found equal, so every call rewrites the file
HashUnchanged_never(existing_hash, file_hash) == FALSE

\* `existing_hash == file_hash` (storage.py 377)
HashUnchanged(existing_hash, file_hash) == existing_hash = file_hash

\* mutant: what the failed transaction had written stays
RolledBack_partial(db, tx) == [tx EXCEPT !.err = "ok"]

\* the committed tables after conn.rollback(), or after the connection of a transaction
\* that was not committed is closed
RolledBack(db, tx) == db

\* upsert_file once the file row was found (storage.py 375-421)
UpsertExisting(db, file_path, m, file_hash, now) ==
    LET row == FileRow(db, file_path)
    IN IF HashUnchanged(row.file_hash, file_hash) THEN Outcome(db, "ok", now)
       ELSE LET t0 == Execute(db)
                t1 == IF t0.err # "ok" THEN t0
                      ELSE [t0 EXCEPT !.files =
                              [i \in 1..Len(@) |->
                                 IF @[i].file_path = file_path
                                 THEN [@[i] EXCEPT !.file_hash = file_hash,
                                                   !.schema_version = m.schema_version,
                                                   !.updated_at = now]
                                 ELSE @[i]]]
                entity_ids == {db.metadata[i].entity_id :
                                 i \in {j \in 1..Len(db.metadata) :
                                          db.metadata[j].file_path = file_path}}
                t2 == IF entity_ids # {} THEN DeleteEntities(t1, entity_ids) ELSE t1
                t3 == SaveEntityList(t2, m.entities, file_path, now, NULL, 0)
            IN IF t3.err = "ok" THEN Outcome(t3, "ok", now)     \* conn.commit()
               \* the exception leaves upsert_file before conn.commit(): the connection is
               \* dropped with its transaction open, which rolls it back
               ELSE Outcome(RolledBack(db, t3), "raised", now)

\* the transaction of save_file (storage.py 220-239)
SaveFileTx(db, file_path, m, file_hash, now) ==
    LET t1 == InsertFileRow(db, [file_path |-> file_path, file_hash |-> file_hash,
                                 schema_version |-> m.schema_version,
                                 created_at |-> now, updated_at |-> now])
    IN SaveEntityList(t1, m.entities, file_path, now, NULL, 0)

\* save_file (storage.py 211-250) and upsert_file (storage.py 360-429) as the frame-th
\* of the calls that wait for each other; each reads the hash and the time again.  On
\* IntegrityError save_file rolls back and calls upsert_file; upsert_file calls save_file
\* when it finds no row of the file.  The interpreter raises RecursionError in place of a
\* call for which the stack has no room, and no handler of the two catches it.
RECURSIVE SaveFileAt(_, _, _, _, _, _), UpsertFileAt(_, _, _, _, _, _)
SaveFileAt(db, file_path, m, file_hash, now, frame) ==
    LET t == SaveFileTx(db, file_path, m, file_hash, now)
    IN IF t.err = "ok" THEN Outcome(t, "ok", now)
       ELSE IF t.err = "IntegrityError"
            THEN IF frame + 1 > RecursionLimit
                 THEN Outcome(RolledBack(db, t), "RecursionError", now)
                 ELSE UpsertFileAt(db, file_path, m, file_hash, now + 1, frame + 1)
            ELSE Outcome(RolledBack(db, t), "raised", now)

UpsertFileAt(db, file_path, m, file_hash, now, frame) ==
    IF HasFileRow(db, file_path)
    THEN UpsertExisting(db, file_path, m, file_hash, now)
    ELSE IF frame + 1 > RecursionLimit
         THEN Outcome(db, "RecursionError", now)
         ELSE SaveFileAt(db, file_path, m, file_hash, now + 1, frame + 1)

\* save_file called by a client of the store
SaveFileOutcome(db, file_path, m, file_hash, now) ==
    SaveFileAt(db, file_path, m, file_hash, now, 1)

\* upsert_file called by a client of the store
UpsertFileOutcome(db, file_path, m, file_hash, now) ==
    UpsertFileAt(db, file_path, m, file_hash, now, 1)

(***************************************************************************)
(* SQLiteStorage.save_verified_relation and save_type_hint                 *)
(* (storage.py 129-202).                                                   *)
(***************************************************************************)
\* mutant: a plain INSERT, without the ON CONFLICT clause
InsertOrUpdateRelation_plain(tx, row) == InsertRelationRow(tx, row)

\* INSERT INTO relations ... ON CONFLICT (from_id, to_name, rel_type) DO UPDATE SET
\* to_id = excluded.to_id, is_verified = excluded.is_verified (storage.py 156-166)
InsertOrUpdateRelation(tx, row) ==
    LET hit == RelIndex(tx, RelKey(row))
    IN IF hit = {} THEN InsertRelationRow(tx, row)
       ELSE [tx EXCEPT !.relations =
               [i \in 1..Len(@) |->
                  IF i \in hit
                  THEN [@[i] EXCEPT !.to_id = row.to_id, !.is_verified = row.is_verified]
                  ELSE @[i]]]

SaveVerifiedRelationOutcome(db, from_id, to_id, rel_type, is_verified, now) ==
    LET found == SelectSeq(db.entities, LAMBDA r : r.id = to_id)
    IN IF found = <<>> THEN Outcome(db, "ok", now)       \* target entity doesn't exist
       ELSE LET t == InsertOrUpdateRelation(db,
                       [from_id |-> from_id, to_id |-> to_id, to_name |-> Head(found).name,
                        rel_type |-> rel_type, is_verified |-> is_verified])
            IN IF t.err = "ok" THEN Outcome(t, "ok", now)
               ELSE Outcome(db, "raised", now)           \* conn.rollback(); raise e

SaveTypeHintOutcome(db, entity_id, type_hint, now) ==
    Outcome([db EXCEPT !.metadata =
               [i \in 1..Len(@) |->
                  IF @[i].entity_id = entity_id THEN [@[i] EXCEPT !.type_hint = type_hint]
                  ELSE @[i]]],
            "ok", now)

(***************************************************************************)
(* SQLiteStorage.get_file (storage.py 431-523).                            *)
(***************************************************************************)
\* the rows of `entities e JOIN metadata m ON e.id = m.entity_id WHERE m.file_path = ?`
FileEntityRows(db, file_path) ==
    SelectSeq(db.entities,
              LAMBDA e : \E i \in 1..Len(db.metadata) :
                            /\ db.metadata[i].entity_id = e.id
                            /\ db.metadata[i].file_path = file_path)

MetadataOf(db, entity_id) ==
    Head(SelectSeq(db.metadata, LAMBDA r : r.entity_id = entity_id))

\* mutant: the relations are not filtered by from_id
DependenciesOf_all(db, entity_id) ==
    [i \in 1..Len(db.relations) |-> Dep(db.relations[i].to_name, db.relations[i].rel_type)]

\* [{"name": to_name, "rel_type": rel_type} for the relations rows with this from_id]
DependenciesOf(db, entity_id) ==
    LET rows == SelectSeq(db.relations, LAMBDA r : r.from_id = entity_id)
    IN [i \in 1..Len(rows) |-> Dep(rows[i].to_name, rows[i].rel_type)]

\* the entity dict built for one row, with the rows whose parent_id is its id under
\* "methods" (storage.py 461-516)
RECURSIVE EntityDict(_, _, _)
EntityDict(db, rows, e) ==
    LET m == MetadataOf(db, e.id)
        kids == SelectSeq(rows, LAMBDA r : r.parent_id = e.id)
    IN [id |-> e.id, name |-> e.name, type |-> e.type, visibility |-> e.visibility,
        docstring |-> m.raw_docstring, cmm_type |-> m.cmm_type,
        method_kind |-> m.method_kind,      \* the key is left out when the column is NULL
        dependencies |-> DependenciesOf(db, e.id),
        methods |-> [i \in 1..Len(kids) |-> EntityDict(db, rows, kids[i])]]

GetFile(db, file_path) ==
    IF ~HasFileRow(db, file_path) THEN NoneStr
    ELSE LET rows == FileEntityRows(db, file_path)
             ids == {rows[i].id : i \in 1..Len(rows)}
             top == SelectSeq(rows, LAMBDA r : r.parent_id = NULL \/ r.parent_id \notin ids)
         IN CMMEntity(FileRow(db, file_path).schema_version,
                      [i \in 1..Len(top) |-> EntityDict(db, rows, top[i])])

(***************************************************************************)
(* SQLiteStorage.get_hierarchical_intent (storage.py 33-101).              *)
(***************************************************************************)
\* the place of a path in the order of the text column file_path
PathRank(file_path) == IF file_path = "a.py" THEN 1 ELSE IF file_path = "b.py" THEN 2 ELSE 0

\* entities e LEFT JOIN metadata m ON e.id = m.entity_id: the columns of m are NULL for an
\* entity without metadata
IntentRow(db, e) ==
    LET ms == SelectSeq(db.metadata, LAMBDA r : r.entity_id = e.id)
    IN [id |-> e.id, name |-> e.name, type |-> e.type, visibility |-> e.visibility,
        parent_id |-> e.parent_id,
        docstring |-> IF ms = <<>> THEN NoneStr ELSE ms[Len(ms)].raw_docstring,
        type_hint |-> IF ms = <<>> THEN NoneStr ELSE ms[Len(ms)].type_hint,
        file_path |-> IF ms = <<>> THEN NoneStr ELSE ms[Len(ms)].file_path]

\* ORDER BY e.parent_id NULLS FIRST, m.file_path
RECURSIVE ByParentAndPath(_)
ByParentAndPath(rows) ==
    IF rows = <<>> THEN <<>>
    ELSE LET least == CHOOSE i \in 1..Len(rows) :
                         \A j \in 1..Len(rows) :
                            \/ rows[i].parent_id < rows[j].parent_id
                            \/ /\ rows[i].parent_id = rows[j].parent_id
                               /\ PathRank(rows[i].file_path) < PathRank(rows[j].file_path)
                            \/ /\ rows[i].parent_id = rows[j].parent_id
                               /\ PathRank(rows[i].file_path) = PathRank(rows[j].file_path)
                               /\ i <= j
         IN <<rows[least]>>
            \o ByParentAndPath([k \in 1..(Len(rows) - 1) |->
                                  IF k < least THEN rows[k] ELSE rows[k + 1]])

\* mutant: the relations are read without the WHERE clause
IntentRelations_all(db) == db.relations

\* SELECT from_id, to_name, rel_type, is_verified FROM relations WHERE is_verified = 1
IntentRelations(db) == SelectSeq(db.relations, LAMBDA r : r.is_verified)

\* relations_map.get(entity["id"], [])
RelationsOfIntent(db, entity_id) ==
    LET rs == SelectSeq(IntentRelations(db), LAMBDA r : r.from_id = entity_id)
    IN [i \in 1..Len(rs) |->
          [from_id |-> rs[i].from_id, to_name |-> rs[i].to_name,
           rel_type |-> rs[i].rel_type, is_verified |-> rs[i].is_verified]]

\* an entity of entities_map with the children the second pass has appended to it
RECURSIVE IntentNode(_, _, _)
IntentNode(db, rows, row) ==
    LET kids == SelectSeq(rows, LAMBDA r : r.parent_id # NULL /\ r.parent_id = row.id)
    IN [id |-> row.id, name |-> row.name, type |-> row.type, visibility |-> row.visibility,
        parent_id |-> row.parent_id, docstring |-> row.docstring,
        type_hint |-> row.type_hint, file_path |-> row.file_path,
        children |-> [i \in 1..Len(kids) |-> IntentNode(db, rows, kids[i])],
        relations |-> RelationsOfIntent(db, row.id)]

\* get_hierarchical_intent: the roots are the entities whose parent is not in
\* entities_map and that are modules or have no parent_id
GetHierarchicalIntent(db) ==
    LET rows == ByParentAndPath([i \in 1..Len(db.entities) |-> IntentRow(db, db.entities[i])])
        ids == {rows[i].id : i \in 1..Len(rows)}
        roots == SelectSeq(rows, LAMBDA r : /\ ~(r.parent_id # NULL /\ r.parent_id \in ids)
                                            /\ (r.type = "module" \/ r.parent_id = NULL))
    IN [i \in 1..Len(roots) |-> IntentNode(db, rows, roots[i])]

(***************************************************************************)
(* The store API called in any order on files that change on disk.         *)
(***************************************************************************)
NoCall == [op |-> "none", file |-> "", model |-> 0, hash |-> <<>>, from_id |-> NULL,
           to_id |-> NULL, rel_type |-> "", result |-> "ok", repeat |-> FALSE]

Call(op, file, model, hash, from_id, to_id, rel_type, result) ==
    LET c == [op |-> op, file |-> file, model |-> model, hash |-> hash, from_id |-> from_id,
              to_id |-> to_id, rel_type |-> rel_type, result |-> result, repeat |-> FALSE]
    IN [c EXCEPT !.repeat = (c = [lastCall EXCEPT !.repeat = FALSE]) /\ result = "ok"]

Commit(out) ==
    /\ files' = out.db.files
    /\ entities' = out.db.entities
    /\ metadata' = out.db.metadata
    /\ relations' = out.db.relations
    /\ next_id' = out.db.next_id
    /\ clock' = out.clock

EmptyDb == [files |-> <<>>, entities |-> <<>>, metadata |-> <<>>, relations |-> <<>>,
            next_id |-> 0, err |-> "ok", fuel |-> NoFault, reject |-> {}]

\* the store after Pass 1 of a scan of the two-file scenario (cli.py 120-131)
ScannedStore ==
    LET a == UpsertFileOutcome(EmptyDb, "a.py", CalculatorModel, ComputeFileHash(1), 1)
    IN UpsertFileOutcome(a.db, "b.py", UseModel, ComputeFileHash(1), a.clock + 1)

\* a new database, or the database a scan of the two files left
StoreInit ==
    /\ disk = [p \in Paths |-> 1]
    /\ \E start \in {Outcome(EmptyDb, "ok", 0), ScannedStore} :
          /\ clock = start.clock
          /\ next_id = start.db.next_id
          /\ files = start.db.files
          /\ entities = start.db.entities
          /\ metadata = start.db.metadata
          /\ relations = start.db.relations
    /\ lastCall = NoCall
    /\ calls = 0

\* the bytes of a file change between two calls
EditFile(p, c) ==
    /\ disk[p] # c
    /\ disk' = [disk EXCEPT ![p] = c]
    /\ UNCHANGED <<clock, next_id, files, entities, metadata, relations, lastCall, calls>>
    /\ UNCHANGED <<lspVars, scanVars>>
    /\ UNCHANGED <<migVars, mapVars, normVars, readVars, parseVars>>

UpsertFile(p, mi) ==
    /\ calls < MaxCalls
    /\ calls' = calls + 1
    /\ LET h == ComputeFileHash(disk[p])
           out == UpsertFileOutcome(Db, p, ModelTable[mi], h, clock + 1)
       IN /\ Commit(out)
          /\ lastCall' = Call("upsert_file", p, mi, h, NULL, NULL, "", out.result)
    /\ UNCHANGED <<disk, lspVars, scanVars>>
    /\ UNCHANGED <<migVars, mapVars, normVars, readVars, parseVars>>

SaveFile(p, mi) ==
    /\ calls < MaxCalls
    /\ calls' = calls + 1
    /\ LET h == ComputeFileHash(disk[p])
           out == SaveFileOutcome(Db, p, ModelTable[mi], h, clock + 1)
       IN /\ Commit(out)
          /\ lastCall' = Call("save_file", p, mi, h, NULL, NULL, "", out.result)
    /\ UNCHANGED <<disk, lspVars, scanVars>>
    /\ UNCHANGED <<migVars, mapVars, normVars, readVars, parseVars>>

\* ids a caller can hold: those of the stored entities and one of an entity that is not
\* (or no longer) stored
KnownIds == EntityIds(Db) \cup {next_id + 1}

SaveVerifiedRelation(a, b, r) ==
    /\ calls < MaxCalls
    /\ calls' = calls + 1
    /\ LET out == SaveVerifiedRelationOutcome(Db, a, b, r, TRUE, clock)
       IN /\ Commit(out)
          /\ lastCall' = Call("save_verified_relation", "", 0, <<>>, a, b, r, out.result)
    /\ UNCHANGED <<disk, lspVars, scanVars>>
    /\ UNCHANGED <<migVars, mapVars, normVars, readVars, parseVars>>

SaveTypeHint(e, sig) ==
    /\ calls < MaxCalls
    /\ calls' = calls + 1
    /\ LET out == SaveTypeHintOutcome(Db, e, sig, clock)
       IN /\ Commit(out)
          /\ lastCall' = Call("save_type_hint", "", 0, <<sig>>, e, NULL, "", out.result)
    /\ UNCHANGED <<disk, lspVars, scanVars>>
    /\ UNCHANGED <<migVars, mapVars, normVars, readVars, parseVars>>

\* the transaction with the fuel for fault statements: the statement after them fails
Faulty(db, fault) == [db EXCEPT !.fuel = fault]

\* upsert_file in which a statement may fail
UpsertFileFault(p, mi, fault) ==
    /\ calls < MaxCalls
    /\ calls' = calls + 1
    /\ LET h == ComputeFileHash(disk[p])
           out == UpsertFileOutcome(Faulty(Db, fault), p, ModelTable[mi], h, clock + 1)
       IN /\ Commit(out)
          /\ lastCall' = Call("upsert_file", p, mi, h, NULL, NULL, "", out.result)
    /\ UNCHANGED <<disk, lspVars, scanVars>>
    /\ UNCHANGED <<migVars, mapVars, normVars, readVars, parseVars>>

\* save_file in which a statement may fail
SaveFileFault(p, mi, fault) ==
    /\ calls < MaxCalls
    /\ calls' = calls + 1
    /\ LET h == ComputeFileHash(disk[p])
           out == SaveFileOutcome(Faulty(Db, fault), p, ModelTable[mi], h, clock + 1)
       IN /\ Commit(out)
          /\ lastCall' = Call("save_file", p, mi, h, NULL, NULL, "", out.result)
    /\ UNCHANGED <<disk, lspVars, scanVars>>
    /\ UNCHANGED <<migVars, mapVars, normVars, readVars, parseVars>>

\* the names of the entities of a model, nested ones included
RECURSIVE EntityNames(_)
EntityNames(ents) ==
    IF ents = <<>> THEN {}
    ELSE {Head(ents).name} \cup EntityNames(Head(ents).methods) \cup EntityNames(Tail(ents))

\* the sets of rows the schema may refuse in one call: none, or those of one name
Rejections(mi) == {{}} \cup {{name} : name \in EntityNames(ModelTable[mi].entities)}

\* upsert_file of a model of which the schema refuses some entity rows
UpsertFileRejected(p, mi, bad) ==
    /\ calls < MaxCalls
    /\ calls' = calls + 1
    /\ LET h == ComputeFileHash(disk[p])
           out == UpsertFileOutcome([Db EXCEPT !.reject = bad], p, ModelTable[mi], h,
                                    clock + 1)
       IN /\ Commit(out)
          /\ lastCall' = Call("upsert_file", p, mi, h, NULL, NULL, "", out.result)
    /\ UNCHANGED <<disk, lspVars, scanVars>>
    /\ UNCHANGED <<migVars, mapVars, normVars, readVars, parseVars>>

\* save_file of a model of which the schema refuses some entity rows
SaveFileRejected(p, mi, bad) ==
    /\ calls < MaxCalls
    /\ calls' = calls + 1
    /\ LET h == ComputeFileHash(disk[p])
           out == SaveFileOutcome([Db EXCEPT !.reject = bad], p, ModelTable[mi], h,
                                  clock + 1)
       IN /\ Commit(out)
          /\ lastCall' = Call("save_file", p, mi, h, NULL, NULL, "", out.result)
    /\ UNCHANGED <<disk, lspVars, scanVars>>
    /\ UNCHANGED <<migVars, mapVars, normVars, readVars, parseVars>>

DelegateNext ==
    \/ \E p \in Paths, c \in Contents : EditFile(p, c)
    \/ \E p \in Paths, mi \in ModelIds :
          \E bad \in Rejections(mi) : UpsertFileRejected(p, mi, bad)
    \/ \E p \in Paths, mi \in ModelIds :
          \E bad \in Rejections(mi) : SaveFileRejected(p, mi, bad)

FaultNext ==
    \/ \E p \in Paths, c \in Contents : EditFile(p, c)
    \/ \E p \in Paths, mi \in ModelIds, fault \in 0..MaxFault : UpsertFileFault(p, mi, fault)
    \/ \E p \in Paths, mi \in ModelIds, fault \in 0..MaxFault : SaveFileFault(p, mi, fault)

StoreNext ==
    \/ \E p \in Paths, c \in Contents : EditFile(p, c)
    \/ \E p \in Paths, mi \in ModelIds : UpsertFile(p, mi)
    \/ \E p \in Paths, mi \in ModelIds : SaveFile(p, mi)
    \/ \E a \in KnownIds, b \in KnownIds, r \in RelTypes : SaveVerifiedRelation(a, b, r)
    \/ \E e \in KnownIds, sig \in Signatures : SaveTypeHint(e, sig)

(***************************************************************************)
(* lsp_client.py: LSPClient, a JSON-RPC client of a language server that   *)
(* runs as a child process and is reached through its stdin and stdout.    *)
(***************************************************************************)
Request(method, id) == [method |-> method, id |-> id]

\* a notification carries no "id" member
Notification(method) == [method |-> method, id |-> NULL]

\* what the server writes: a response with a "result" member (a value or null), an error
\* response (no "result" member), or a notification of its own
ServerMessage(kind, id, result) == [kind |-> kind, id |-> id, result |-> result]

Replies == {"value", "null", "error"}

NoRequest == [op |-> "none", id |-> NULL]

Returned(op, value, id, from) == [op |-> op, value |-> value, id |-> id, from |-> from]

\* LSPClient.__init__
LspInit ==
    /\ process = "None"
    /\ child = "none"
    /\ initialized = FALSE
    /\ request_id = 0
    /\ sent = <<>>
    /\ served = 0
    /\ server_ok = TRUE
    /\ stdout = <<>>
    /\ lspPc = "idle"
    /\ pending = NoRequest
    /\ lspResult = Returned("none", "None", 0, 0)

\* _next_id
NextId_same(id) == id

NextId(id) == id + 1

\* stdin.write and flush raise BrokenPipeError once the child has exited
CanWrite == child = "alive"

HasResult_any(response) == TRUE

\* 'result' in response
HasResult(response) == response.kind = "response"

\* the guard of get_definition and get_hover
NotReady_never == FALSE

NotReady == ~initialized

\* _send_request up to the call of _read_response; op is the client call that waits
SendRequest(op, method) ==
    /\ request_id' = NextId(request_id)
    /\ IF process = "None" \/ ~CanWrite
       THEN /\ lspResult' = Returned(op, "None", NextId(request_id), 0)
            /\ UNCHANGED <<sent, lspPc, pending>>
       ELSE /\ sent' = Append(sent, Request(method, NextId(request_id)))
            /\ lspPc' = "reading"
            /\ pending' = [op |-> op, id |-> NextId(request_id)]
            /\ UNCHANGED lspResult

\* start(): the probe, Popen and the initialize request
LspStart(probe_ok, popen_ok) ==
    /\ lspPc = "idle"
    /\ request_id < MaxRequests
    /\ initialized => request_id + 1 < MaxRequests
    /\ IF ~probe_ok \/ ~popen_ok
       THEN /\ lspResult' = Returned("start", "False", request_id, 0)
            /\ UNCHANGED <<process, child, initialized, request_id, sent, served, server_ok,
                           stdout, lspPc, pending>>
       ELSE /\ process' = "Popen"
            /\ child' = "alive"
            /\ server_ok' = TRUE
            /\ request_id' = NextId(request_id)
            /\ sent' = <<Request("initialize", NextId(request_id))>>
            /\ served' = 0
            /\ stdout' = <<>>
            /\ lspPc' = "reading"
            /\ pending' = [op |-> "start", id |-> NextId(request_id)]
            /\ UNCHANGED <<initialized, lspResult>>

\* get_definition() and get_hover() up to the call of _read_response
LspQuery(op, method) ==
    /\ lspPc = "idle"
    /\ IF NotReady
       THEN /\ lspResult' = Returned(op, "None", request_id, 0)
            /\ UNCHANGED <<request_id, sent, lspPc, pending>>
       ELSE /\ request_id < MaxRequests
            /\ SendRequest(op, method)
    /\ UNCHANGED <<process, child, initialized, served, server_ok, stdout>>

\* the end of shutdown(): the exit notification, wait (kill on timeout), and the finally
\* block
ShutdownTail ==
    /\ sent' = IF CanWrite THEN Append(sent, Notification("exit")) ELSE sent
    /\ child' = "exited"
    /\ process' = "None"
    /\ initialized' = FALSE

\* shutdown() up to the call of _read_response
LspShutdown ==
    /\ lspPc = "idle"
    /\ IF process = "Popen" /\ initialized
       THEN /\ request_id < MaxRequests
            /\ request_id' = NextId(request_id)
            /\ IF CanWrite
               THEN /\ sent' = Append(sent, Request("shutdown", NextId(request_id)))
                    /\ lspPc' = "reading"
                    /\ pending' = [op |-> "shutdown", id |-> NextId(request_id)]
                    /\ UNCHANGED <<process, child, initialized, lspResult>>
               ELSE /\ ShutdownTail
                    /\ lspResult' = Returned("shutdown", "None", NextId(request_id), 0)
                    /\ UNCHANGED <<lspPc, pending>>
            /\ UNCHANGED <<served, server_ok, stdout>>
       ELSE /\ lspResult' = Returned("shutdown", "None", request_id, 0)
            /\ UNCHANGED <<process, child, initialized, request_id, sent, served, server_ok,
                           stdout, lspPc, pending>>

\* Location.from_lsp_response and TypeInfo.from_lsp_response: nothing for an empty result
FromLspResponse(op, result) ==
    IF result = "null" THEN "None"
    ELSE IF op = "get_definition" THEN "Location" ELSE "TypeInfo"

\* _read_response takes the next message of the child's stdout, and the call that waited
\* for it returns.  With the stdout empty the client blocks in readline; once the child has
\* exited readline returns '' at once, no line starts with 'Content-Length:', and the loop
\* of _read_response goes on without any change of state: no step of the client is
\* possible.
ReadDone ==
    /\ lspPc' = "idle"
    /\ pending' = NoRequest
    /\ UNCHANGED request_id

LspRead ==
    /\ lspPc = "reading"
    /\ stdout # <<>>
    /\ LET response == Head(stdout)
           op == pending.op
       IN /\ stdout' = Tail(stdout)
          /\ CASE op = "start" ->
                    IF HasResult(response)
                    THEN /\ sent' = IF CanWrite THEN Append(sent, Notification("initialized"))
                                    ELSE sent
                         /\ initialized' = TRUE
                         /\ lspResult' = Returned(op, "True", pending.id, response.id)
                         /\ UNCHANGED <<process, child>>
                         /\ ReadDone
                    ELSE IF ~initialized
                    THEN \* shutdown() does nothing here: _initialized is False
                         /\ lspResult' = Returned(op, "False", pending.id, response.id)
                         /\ UNCHANGED <<process, child, initialized, sent>>
                         /\ ReadDone
                    ELSE \* _initialized is still True from an earlier start(): shutdown()
                         \* sends its request to the new child
                         /\ request_id' = NextId(request_id)
                         /\ IF CanWrite
                            THEN /\ sent' = Append(sent,
                                                  Request("shutdown", NextId(request_id)))
                                 /\ pending' = [op |-> "start_shutdown",
                                                id |-> NextId(request_id)]
                                 /\ UNCHANGED <<process, child, initialized, lspPc,
                                                lspResult>>
                            ELSE /\ ShutdownTail
                                 /\ lspResult' = Returned(op, "False", pending.id,
                                                          response.id)
                                 /\ lspPc' = "idle"
                                 /\ pending' = NoRequest
               [] op = "start_shutdown" ->
                    /\ ShutdownTail
                    /\ lspResult' = Returned("start", "False", pending.id, response.id)
                    /\ ReadDone
               [] op = "shutdown" ->
                    /\ ShutdownTail
                    /\ lspResult' = Returned(op, "None", pending.id, response.id)
                    /\ ReadDone
               [] OTHER ->
                    /\ lspResult' = Returned(op,
                                       IF HasResult(response)
                                       THEN FromLspResponse(op, response.result)
                                       ELSE "None",
                                       pending.id, response.id)
                    /\ UNCHANGED <<process, child, initialized, sent>>
                    /\ ReadDone
    /\ UNCHANGED <<served, server_ok>>

\* the language server takes the next message from its stdin and answers a request
ServerHandle(reply) ==
    /\ child = "alive"
    /\ served < Len(sent)
    /\ served' = served + 1
    /\ LET msg == sent[served + 1]
       IN /\ stdout' = IF msg.id = NULL THEN stdout
                       ELSE IF reply = "error"
                            THEN Append(stdout, ServerMessage("error", msg.id, "none"))
                            ELSE Append(stdout, ServerMessage("response", msg.id, reply))
          /\ server_ok' = (server_ok /\ (msg.id = NULL \/ reply = "value"))
    /\ UNCHANGED <<process, child, initialized, request_id, sent, lspPc, pending, lspResult>>
    /\ UNCHANGED <<storeVars, scanVars>>
    /\ UNCHANGED <<migVars, mapVars, normVars, readVars, parseVars>>

\* the language server writes a notification of its own (a log message, diagnostics)
ServerNotify ==
    /\ child = "alive"
    /\ Len(stdout) < MaxUnread
    /\ stdout' = Append(stdout, ServerMessage("notification", NULL, "none"))
    /\ UNCHANGED <<process, child, initialized, request_id, sent, served, server_ok, lspPc,
                   pending, lspResult>>
    /\ UNCHANGED <<storeVars, scanVars>>
    /\ UNCHANGED <<migVars, mapVars, normVars, readVars, parseVars>>

\* the language server exits by itself or is killed
ServerExit ==
    /\ child = "alive"
    /\ child' = "exited"
    /\ server_ok' = FALSE
    /\ UNCHANGED <<process, initialized, request_id, sent, served, stdout, lspPc, pending,
                   lspResult>>
    /\ UNCHANGED <<storeVars, scanVars>>
    /\ UNCHANGED <<migVars, mapVars, normVars, readVars, parseVars>>

\* python_files, in the order rglob gave them
python_files == <<"a.py", "b.py">>

NoStats == [resolved |-> 0, failed |-> 0, external |-> 0]

\* SymbolMapper.__init__: empty caches
NotLoaded == [loaded |-> FALSE, rows |-> <<>>]

NoMapResult == [op |-> "none", file_path |-> "", line |-> 0, value |-> NULL,
                raised |-> FALSE]

MapperInit ==
    /\ file_entity_cache = [p \in Paths |-> NotLoaded]
    /\ location_cache = {}
    /\ mapResult = NoMapResult

\* no entity is being normalized
NoEntity == [type |-> "none"]

NormIdle ==
    /\ raw = NoEntity
    /\ normalized = NoEntity

\* nothing was written to the child's stdout and _read_response was not called
NoRead == [op |-> "none", value |-> <<>>]

ReadIdle ==
    /\ stream = <<>>
    /\ written = 0
    /\ readResult = NoRead

\* the parser has not been called
NoScan == [op |-> "none", value |-> <<>>]

ParseIdle ==
    /\ source = <<>>
    /\ cmm = NoScan
    /\ call_sites = NoScan

NoBackup == [taken |-> FALSE, tables |-> <<>>]

NoMigration == [from |-> "", to |-> ""]

\* no migrate command runs; SQLiteStorage(db_path) has made the database file
MigIdle ==
    /\ db_exists = TRUE
    /\ backup = NoBackup
    /\ migration = NoMigration
    /\ exit_code = "none"

\* no scan runs
ScanIdle ==
    /\ pc = "idle"
    /\ idx = 0
    /\ scanned = 0
    /\ errors = 0
    /\ enable_lsp = FALSE
    /\ stats = NoStats
    /\ probe_failed = FALSE
    /\ report = "none"

(***************************************************************************)
(* The client API called in any order against a server that answers,       *)
(* notifies and exits as it likes.                                         *)
(***************************************************************************)
LspOnlyInit ==
    /\ StoreInit
    /\ LspInit
    /\ ScanIdle
    /\ MigIdle
    /\ MapperInit
    /\ NormIdle
    /\ ReadIdle
    /\ ParseIdle

ClientStart(probe_ok, popen_ok) ==
    /\ LspStart(probe_ok, popen_ok)
    /\ UNCHANGED <<storeVars, scanVars>>
    /\ UNCHANGED <<migVars, mapVars, normVars, readVars, parseVars>>

ClientGetDefinition ==
    /\ LspQuery("get_definition", "textDocument/definition")
    /\ UNCHANGED <<storeVars, scanVars>>
    /\ UNCHANGED <<migVars, mapVars, normVars, readVars, parseVars>>

ClientGetHover ==
    /\ LspQuery("get_hover", "textDocument/hover")
    /\ UNCHANGED <<storeVars, scanVars>>
    /\ UNCHANGED <<migVars, mapVars, normVars, readVars, parseVars>>

ClientShutdown ==
    /\ LspShutdown
    /\ UNCHANGED <<storeVars, scanVars>>
    /\ UNCHANGED <<migVars, mapVars, normVars, readVars, parseVars>>

ClientRead ==
    /\ LspRead
    /\ UNCHANGED <<storeVars, scanVars>>
    /\ UNCHANGED <<migVars, mapVars, normVars, readVars, parseVars>>

LspNext ==
    \/ \E probe_ok \in BOOLEAN, popen_ok \in BOOLEAN : ClientStart(probe_ok, popen_ok)
    \/ ClientGetDefinition
    \/ ClientGetHover
    \/ ClientShutdown
    \/ ClientRead
    \/ \E reply \in Replies : ServerHandle(reply)
    \/ ServerNotify
    \/ ServerExit

(***************************************************************************)
(* cli.py: scan_directory, Pass 1 (syntax scan into the store) and Pass 2  *)
(* (resolution of call sites through the language server).                 *)
(***************************************************************************)
Unreadable == 0     \* a file that open() or read() refuses

\* parser.scan_file: the model of each version of each file; nothing when reading raises
ScanFile(file_path, content) ==
    IF content = Unreadable THEN NULL
    ELSE IF content = 2 THEN 3
    ELSE IF file_path = "a.py" THEN 1 ELSE 2

\* a node captured by CALL_QUERY: the capture name, the node's text and start point
Capture(capture_name, text, line, character) ==
    [capture |-> capture_name, text |-> text, line |-> line, character |-> character]

\* cursor.captures(tree.root_node) before grouping: the captured nodes of each version of
\* each file, in document order.  b.py is
\*     4:    calc = Calculator()
\*     5:    result = calc.add(1, 2)
\* in use_calculator; the second version of a file is
\*     2:        external_thing(); add()
\*     3:Base.register()
\*     4:Base.check()
\* with line 2 in _helper and lines 3 and 4 at module level.
Captures(file_path, content) ==
    IF content = 2
    THEN << Capture("call.function", "external_thing", 2, 8),
            Capture("call.function", "add", 2, 26),
            Capture("call.object", "Base", 3, 0),
            Capture("call.method", "register", 3, 5),
            Capture("call.object", "Base", 4, 0),
            Capture("call.method", "check", 4, 5) >>
    ELSE IF content = 1 /\ file_path = "b.py"
         THEN << Capture("call.function", "Calculator", 4, 11),
                 Capture("call.object", "calc", 5, 13),
                 Capture("call.method", "add", 5, 18) >>
    ELSE <<>>

\* the names of PYTHON_BUILTINS that matter here
PYTHON_BUILTINS == {"self", "cls", "print", "len", "str", "int"}

\* the keys of the dict that cursor.captures returns, in the order of their first node
RECURSIVE CaptureNames(_, _)
CaptureNames(caps, keys) ==
    IF caps = <<>> THEN keys
    ELSE CaptureNames(Tail(caps),
                      IF \E k \in 1..Len(keys) : keys[k] = Head(caps).capture
                      THEN keys
                      ELSE Append(keys, Head(caps).capture))

\* CallSite.from_node
CallSite(name, line, character) == [name |-> name, line |-> line, character |-> character]

\* the inner loop of extract_call_sites over the nodes of one capture name
RECURSIVE SitesOfNodes(_)
SitesOfNodes(nodes) ==
    IF nodes = <<>> THEN <<>>
    ELSE LET node == Head(nodes)
         IN (IF node.text \in PYTHON_BUILTINS THEN <<>>
             ELSE <<CallSite(node.text, node.line, node.character)>>)
            \o SitesOfNodes(Tail(nodes))

\* the outer loop of extract_call_sites: for capture_name, nodes in captures_dict.items()
RECURSIVE SitesOfKeys(_, _)
SitesOfKeys(caps, keys) ==
    IF keys = <<>> THEN <<>>
    ELSE SitesOfNodes(SelectSeq(caps, LAMBDA c : c.capture = Head(keys)))
         \o SitesOfKeys(caps, Tail(keys))

\* parser.extract_call_sites
CallSites(file_path, content) ==
    LET caps == Captures(file_path, content)
    IN SitesOfKeys(caps, CaptureNames(caps, <<>>))

\* some stored entity of the file spans the line (symbol_mapper.py 205-213)
HasEnclosingEntity(db, file_path, line) ==
    \E i \in 1..Len(db.entities) :
       /\ db.entities[i].id \in
             {db.metadata[k].entity_id :
                k \in {j \in 1..Len(db.metadata) : db.metadata[j].file_path = file_path}}
       /\ db.entities[i].line_start <= line
       /\ line <= db.entities[i].line_end

\* the methods LSPClient defines
ClientMethods ==
    {"__init__", "is_available", "start", "_initialize", "get_definition", "get_hover",
     "shutdown", "_send_request", "_send_notification", "_read_response", "_next_id"}

\* the except branch of the Pass 1 loop: the loop goes on with the next file
AfterError_stop(i) == Len(python_files) + 1

AfterError(i) == i + 1

\* what follows a failed availability probe: scan_directory returns
AfterProbeFailure_start == "start"

AfterProbeFailure == "done"

ScanInit ==
    /\ disk \in [Paths -> {Unreadable} \cup Contents]
    /\ \E start \in {Outcome(EmptyDb, "ok", 0), ScannedStore} :
          /\ clock = start.clock
          /\ next_id = start.db.next_id
          /\ files = start.db.files
          /\ entities = start.db.entities
          /\ metadata = start.db.metadata
          /\ relations = start.db.relations
    /\ lastCall = NoCall
    /\ calls = 0
    /\ LspInit
    /\ ScanIdle
    /\ MigIdle
    /\ MapperInit
    /\ NormIdle
    /\ ReadIdle
    /\ ParseIdle

\* scan_directory up to the Pass 1 loop
ScanStart(lsp_flag) ==
    /\ pc = "idle"
    /\ pc' = "pass1"
    /\ idx' = 1
    /\ scanned' = 0
    /\ errors' = 0
    /\ enable_lsp' = lsp_flag
    /\ UNCHANGED <<stats, probe_failed, report, storeVars, lspVars>>
    /\ UNCHANGED <<migVars, mapVars, normVars, readVars, parseVars>>

\* one iteration of the Pass 1 loop
Pass1File ==
    /\ pc = "pass1"
    /\ idx <= Len(python_files)
    /\ LET file_path == python_files[idx]
           cmm_entity == ScanFile(file_path, disk[file_path])
           h == ComputeFileHash(disk[file_path])
       IN IF cmm_entity = NULL
          THEN /\ errors' = errors + 1
               /\ idx' = AfterError(idx)
               /\ UNCHANGED <<scanned, storeVars>>
          ELSE LET out == UpsertFileOutcome(Db, file_path, ModelTable[cmm_entity], h,
                                            clock + 1)
               IN /\ Commit(out)
                  /\ lastCall' = Call("upsert_file", file_path, cmm_entity, h, NULL, NULL,
                                      "", out.result)
                  /\ calls' = calls + 1
                  /\ IF out.result = "ok"
                     THEN /\ scanned' = scanned + 1
                          /\ idx' = idx + 1
                          /\ UNCHANGED errors
                     ELSE /\ errors' = errors + 1
                          /\ idx' = AfterError(idx)
                          /\ UNCHANGED scanned
                  /\ UNCHANGED disk
    /\ UNCHANGED <<pc, enable_lsp, stats, probe_failed, report, lspVars>>
    /\ UNCHANGED <<migVars, mapVars, normVars, readVars, parseVars>>

\* after the Pass 1 loop: the end of the scan without --enable-lsp, else a new LSPClient
\* and the availability probe
Pass1Done(probe_ok) ==
    /\ pc = "pass1"
    /\ idx > Len(python_files)
    /\ IF ~enable_lsp
       THEN /\ pc' = "done"
            /\ report' = "pass1"
            /\ UNCHANGED probe_failed
       ELSE /\ pc' = IF probe_ok THEN "start" ELSE AfterProbeFailure
            /\ probe_failed' = ~probe_ok
            /\ report' = "pass1"
    /\ UNCHANGED <<idx, scanned, errors, enable_lsp, stats, storeVars, lspVars>>
    /\ UNCHANGED <<migVars, mapVars, normVars, readVars, parseVars>>

\* lsp.start() is called
ScanLspStart(probe_ok, popen_ok) ==
    /\ pc = "start"
    /\ LspStart(probe_ok, popen_ok)
    /\ pc' = "starting"
    /\ probe_failed' = ~probe_ok
    /\ UNCHANGED <<idx, scanned, errors, enable_lsp, stats, report, storeVars>>
    /\ UNCHANGED <<migVars, mapVars, normVars, readVars, parseVars>>

\* lsp.start() has returned: the end of the scan, or the SymbolMapper, the counters and the
\* Pass 2 loop
ScanLspStarted ==
    /\ pc = "starting"
    /\ lspPc = "idle"
    /\ IF lspResult.value = "False"
       THEN /\ pc' = "done"
            /\ UNCHANGED <<idx, stats>>
       ELSE /\ pc' = "pass2"
            /\ idx' = 1
            /\ stats' = NoStats
    /\ UNCHANGED <<scanned, errors, enable_lsp, probe_failed, report, storeVars, lspVars>>
    /\ UNCHANGED <<migVars, mapVars, normVars, readVars, parseVars>>

\* one iteration of the Pass 2 loop.  The try block opens the file and calls
\* lsp.open_document, which LSPClient does not define: the block raises (OSError or
\* UnicodeDecodeError from the file, else AttributeError) before any call site is looked
\* at, and the except branch goes on with the next file.
Pass2File ==
    /\ pc = "pass2"
    /\ idx <= Len(python_files)
    /\ disk[python_files[idx]] = Unreadable \/ "open_document" \notin ClientMethods
    /\ idx' = idx + 1
    /\ UNCHANGED <<pc, scanned, errors, enable_lsp, stats, probe_failed, report, storeVars,
                   lspVars>>
    /\ UNCHANGED <<migVars, mapVars, normVars, readVars, parseVars>>

\* after the Pass 2 loop: lsp.shutdown() is called
Pass2Done ==
    /\ pc = "pass2"
    /\ idx > Len(python_files)
    /\ LspShutdown
    /\ pc' = "shutting"
    /\ UNCHANGED <<idx, scanned, errors, enable_lsp, stats, probe_failed, report, storeVars>>
    /\ UNCHANGED <<migVars, mapVars, normVars, readVars, parseVars>>

\* lsp.shutdown() has returned: the statistics are printed and the scan ends
ScanLspStopped ==
    /\ pc = "shutting"
    /\ lspPc = "idle"
    /\ pc' = "done"
    /\ report' = "pass2"
    /\ UNCHANGED <<idx, scanned, errors, enable_lsp, stats, probe_failed, storeVars, lspVars>>
    /\ UNCHANGED <<migVars, mapVars, normVars, readVars, parseVars>>

ScanNext ==
    \/ \E lsp_flag \in BOOLEAN : ScanStart(lsp_flag)
    \/ Pass1File
    \/ \E probe_ok \in BOOLEAN : Pass1Done(probe_ok)
    \/ \E probe_ok \in BOOLEAN, popen_ok \in BOOLEAN : ScanLspStart(probe_ok, popen_ok)
    \/ ScanLspStarted
    \/ Pass2File
    \/ Pass2Done
    \/ ScanLspStopped
    \/ ClientRead
    \/ \E reply \in Replies : ServerHandle(reply)
    \/ ServerNotify
    \/ ServerExit

(***************************************************************************)
(* scan_directory interrupted: KeyboardInterrupt is no Exception, so neither *)
(* `except Exception` of cli.py catches it and the scan ends where it is.  *)
(***************************************************************************)
\* the store a scan left, with the call of use_calculator to Calculator verified since
VerifiedStore(store) ==
    LET rows == {store.db.entities[i] : i \in 1..Len(store.db.entities)}
        from == CHOOSE e \in rows : e.name = "use_calculator"
        to == CHOOSE e \in rows : e.name = "Calculator"
    IN SaveVerifiedRelationOutcome(store.db, from.id, to.id, "calls", TRUE, store.clock + 1)

InterruptInit ==
    /\ disk \in [Paths -> {Unreadable} \cup Contents]
    /\ \E store \in {ScannedStore} :
       \E start \in {Outcome(EmptyDb, "ok", 0), store, VerifiedStore(store)} :
          /\ clock = start.clock
          /\ next_id = start.db.next_id
          /\ files = start.db.files
          /\ entities = start.db.entities
          /\ metadata = start.db.metadata
          /\ relations = start.db.relations
    /\ lastCall = NoCall
    /\ calls = 0
    /\ LspInit
    /\ ScanIdle
    /\ MigIdle
    /\ MapperInit
    /\ NormIdle
    /\ ReadIdle
    /\ ParseIdle

\* the interrupt arrives in an iteration of the Pass 1 loop: in scan_file, or in
\* upsert_file before its statement number `fault`, or after upsert_file has committed
Pass1Interrupt(fault) ==
    /\ pc = "pass1"
    /\ idx <= Len(python_files)
    /\ pc' = "interrupted"
    /\ LET file_path == python_files[idx]
           cmm_entity == ScanFile(file_path, disk[file_path])
           h == ComputeFileHash(disk[file_path])
       IN IF cmm_entity = NULL
          THEN UNCHANGED storeVars
          ELSE LET out == UpsertFileOutcome(Faulty(Db, fault), file_path,
                                            ModelTable[cmm_entity], h, clock + 1)
               IN /\ Commit(out)
                  /\ lastCall' = Call("upsert_file", file_path, cmm_entity, h, NULL, NULL,
                                      "", out.result)
                  /\ calls' = calls + 1
                  /\ UNCHANGED disk
    /\ UNCHANGED <<idx, scanned, errors, enable_lsp, stats, probe_failed, report, lspVars>>
    /\ UNCHANGED <<migVars, mapVars, normVars, readVars, parseVars>>

\* the interrupt arrives in the Pass 2 loop
Pass2Interrupt ==
    /\ pc = "pass2"
    /\ pc' = "interrupted"
    /\ UNCHANGED <<idx, scanned, errors, enable_lsp, stats, probe_failed, report, storeVars,
                   lspVars>>
    /\ UNCHANGED <<migVars, mapVars, normVars, readVars, parseVars>>

InterruptNext ==
    \/ \E lsp_flag \in BOOLEAN : ScanStart(lsp_flag)
    \/ Pass1File
    \/ \E fault \in 0..MaxFault : Pass1Interrupt(fault)
    \/ \E probe_ok \in BOOLEAN : Pass1Done(probe_ok)
    \/ \E probe_ok \in BOOLEAN, popen_ok \in BOOLEAN : ScanLspStart(probe_ok, popen_ok)
    \/ ScanLspStarted
    \/ Pass2File
    \/ Pass2Interrupt
    \/ Pass2Done
    \/ ScanLspStopped
    \/ ClientRead
    \/ \E reply \in Replies : ServerHandle(reply)
    \/ ServerNotify
    \/ ServerExit

(***************************************************************************)
(* cli.py: migrate_database and its helpers.                               *)
(***************************************************************************)
Versions == {"v0.2", "v0.3", "v0.3.1", "v0.4"}

\* the two branches of migrate_database that call _perform_rescan_migration
RescanPair(from_version, to_version) ==
    \/ from_version = "v0.2" /\ to_version = "v0.3"
    \/ (from_version = "v0.3" \/ from_version = "v0.3.1") /\ to_version = "v0.4"

\* scan_directory(scan_path, db_path=db_path, verbose=False) up to its Pass 1 loop:
\* SQLiteStorage(db_path) makes the database file, then a missing directory ends the
\* command with typer.Exit(1).  enable_lsp is left to its default, which in a plain call
\* is the typer.Option object, and that is true in `if enable_lsp:`.
RescanBegin(dir_ok) ==
    /\ db_exists' = TRUE
    /\ IF dir_ok
       THEN /\ pc' = "pass1"
            /\ idx' = 1
            /\ scanned' = 0
            /\ errors' = 0
            /\ enable_lsp' = TRUE
            /\ exit_code' = "none"
       ELSE /\ exit_code' = "1"
            /\ UNCHANGED <<pc, idx, scanned, errors, enable_lsp>>
    /\ UNCHANGED <<stats, probe_failed, report>>

\* os.remove(db_path): the next connection finds no table and no row
Removed ==
    /\ files' = <<>>
    /\ entities' = <<>>
    /\ metadata' = <<>>
    /\ relations' = <<>>
    /\ UNCHANGED <<disk, clock, next_id, lastCall, calls>>

\* migrate_database up to the Pass 1 loop of the scan it calls, or up to its exit
MigrateDatabase(from_version, to_version, copy_ok, dir_ok) ==
    /\ pc = "idle"
    /\ migration = NoMigration
    /\ migration' = [from |-> from_version, to |-> to_version]
    /\ IF ~db_exists
       THEN IF from_version # "v0.2"
            THEN /\ exit_code' = "1"
                 /\ UNCHANGED <<db_exists, backup, storeVars, scanVars>>
            ELSE /\ RescanBegin(dir_ok)
                 /\ UNCHANGED <<backup, storeVars>>
       ELSE IF ~copy_ok                     \* _create_backup: shutil.copy2 raises
            THEN /\ exit_code' = "1"
                 /\ UNCHANGED <<db_exists, backup, storeVars, scanVars>>
            ELSE /\ backup' = [taken |-> TRUE,
                               tables |-> <<files, entities, metadata, relations>>]
                 /\ IF RescanPair(from_version, to_version)
                    THEN /\ Removed        \* _perform_rescan_migration
                         /\ RescanBegin(dir_ok)
                    ELSE /\ exit_code' = "1"
                         /\ UNCHANGED <<db_exists, storeVars, scanVars>>
    /\ UNCHANGED <<lspVars, mapVars, normVars, readVars, parseVars>>

\* scan_directory has returned: "Migration complete!"
MigrateDone ==
    /\ pc = "done"
    /\ migration # NoMigration
    /\ exit_code = "none"
    /\ exit_code' = "0"
    /\ UNCHANGED <<db_exists, backup, migration, storeVars, lspVars, scanVars, mapVars,
                   normVars, readVars, parseVars>>

\* a database file a scan wrote, or none
MigrateInit ==
    /\ disk \in [Paths -> Contents]
    /\ db_exists \in BOOLEAN
    /\ \E start \in {IF db_exists THEN ScannedStore ELSE Outcome(EmptyDb, "ok", 0)} :
          /\ clock = start.clock
          /\ next_id = start.db.next_id
          /\ files = start.db.files
          /\ entities = start.db.entities
          /\ metadata = start.db.metadata
          /\ relations = start.db.relations
    /\ lastCall = NoCall
    /\ calls = 0
    /\ LspInit
    /\ ScanIdle
    /\ backup = NoBackup
    /\ migration = NoMigration
    /\ exit_code = "none"
    /\ MapperInit
    /\ NormIdle
    /\ ReadIdle
    /\ ParseIdle

MigrateNext ==
    \/ \E from_version \in Versions, to_version \in Versions,
          copy_ok \in BOOLEAN, dir_ok \in BOOLEAN :
          MigrateDatabase(from_version, to_version, copy_ok, dir_ok)
    \/ MigrateDone
    \/ Pass1File
    \/ \E probe_ok \in BOOLEAN : Pass1Done(probe_ok)
    \/ \E probe_ok \in BOOLEAN, popen_ok \in BOOLEAN : ScanLspStart(probe_ok, popen_ok)
    \/ ScanLspStarted
    \/ Pass2File
    \/ Pass2Done
    \/ ScanLspStopped
    \/ ClientRead
    \/ \E reply \in Replies : ServerHandle(reply)
    \/ ServerNotify
    \/ ServerExit

(***************************************************************************)
(* symbol_mapper.py: SymbolMapper over the database of a SQLiteStorage.    *)
(***************************************************************************)
\* the tables the statements of storage.py name
StoreTables == {"files", "entities", "metadata", "relations"}

\* the table the statements of symbol_mapper.py read the entities from
MapperEntityTable == "entities_v3"

\* rows in ascending order of line_start (ORDER BY e.line_start ASC)
RECURSIVE ByLineStart(_)
ByLineStart(rows) ==
    IF rows = <<>> THEN <<>>
    ELSE LET least == CHOOSE i \in 1..Len(rows) :
                         \A j \in 1..Len(rows) :
                            \/ rows[i].line_start < rows[j].line_start
                            \/ rows[i].line_start = rows[j].line_start /\ i <= j
         IN <<rows[least]>>
            \o ByLineStart([k \in 1..(Len(rows) - 1) |->
                              IF k < least THEN rows[k] ELSE rows[k + 1]])

\* _load_file_entities: sqlite3.OperationalError (no such table) when the database has no
\* table of that name
LoadFileEntities(db, file_path) ==
    IF MapperEntityTable \notin StoreTables
    THEN [raised |-> TRUE, rows |-> <<>>]
    ELSE [raised |-> FALSE, rows |-> ByLineStart(FileEntityRows(db, file_path))]

\* the loop of find_enclosing_entity from a best match so far: strictly smaller spans win
RECURSIVE BestMatch(_, _, _)
BestMatch(rows, line, best) ==
    IF rows = <<>> THEN best
    ELSE LET entity == Head(rows)
             better == /\ entity.line_start <= line
                       /\ line <= entity.line_end
                       /\ \/ best = <<>>
                          \/ entity.line_end - entity.line_start
                               < best[1].line_end - best[1].line_start
         IN BestMatch(Tail(rows), line, IF better THEN <<entity>> ELSE best)

\* a new SymbolMapper(storage)
MapperNew ==
    /\ file_entity_cache' = [p \in Paths |-> NotLoaded]
    /\ location_cache' = {}
    /\ mapResult' = NoMapResult
    /\ UNCHANGED <<storeVars, lspVars, scanVars, migVars, normVars, readVars, parseVars>>

\* find_enclosing_entity(file_path, line)
FindEnclosingEntity(file_path, line) ==
    /\ LET load == IF file_entity_cache[file_path].loaded
                   THEN [raised |-> FALSE, rows |-> file_entity_cache[file_path].rows]
                   ELSE LoadFileEntities(Db, file_path)
           best == BestMatch(load.rows, line, <<>>)
       IN IF load.raised
          THEN /\ mapResult' = [op |-> "find_enclosing_entity", file_path |-> file_path,
                                line |-> line, value |-> NULL, raised |-> TRUE]
               /\ UNCHANGED file_entity_cache
          ELSE /\ file_entity_cache' =
                     [file_entity_cache EXCEPT ![file_path] =
                        [loaded |-> TRUE, rows |-> load.rows]]
               /\ mapResult' = [op |-> "find_enclosing_entity", file_path |-> file_path,
                                line |-> line,
                                value |-> IF best = <<>> THEN NULL ELSE best[1].id,
                                raised |-> FALSE]
    /\ UNCHANGED <<location_cache, storeVars, lspVars, scanVars, migVars, normVars, readVars, parseVars>>

\* rows in ascending order of their span (ORDER BY (e.line_end - e.line_start) ASC)
RECURSIVE BySpan(_)
BySpan(rows) ==
    IF rows = <<>> THEN <<>>
    ELSE LET least == CHOOSE i \in 1..Len(rows) :
                         \A j \in 1..Len(rows) :
                            \/ rows[i].line_end - rows[i].line_start
                                 < rows[j].line_end - rows[j].line_start
                            \/ /\ rows[i].line_end - rows[i].line_start
                                    = rows[j].line_end - rows[j].line_start
                               /\ i <= j
         IN <<rows[least]>>
            \o BySpan([k \in 1..(Len(rows) - 1) |->
                         IF k < least THEN rows[k] ELSE rows[k + 1]])

\* _query_entity_at_location (symbol_mapper.py 126-162): the first row of the entities
\* of the file that contain the line, smallest span first
QueryEntityAtLocation(db, file_path, line) ==
    IF MapperEntityTable \notin StoreTables
    THEN [raised |-> TRUE, value |-> NULL]
    ELSE LET rows == BySpan(SelectSeq(FileEntityRows(db, file_path),
                                      LAMBDA r : r.line_start <= line /\ r.line_end >= line))
         IN [raised |-> FALSE, value |-> IF rows = <<>> THEN NULL ELSE rows[1].id]

Cached(file_path, line) == {c \in location_cache : c[1] = file_path /\ c[2] = line}

\* find_by_location(location): the cache first, then the database
FindByLocation(file_path, line) ==
    /\ LET hit == Cached(file_path, line)
           found == QueryEntityAtLocation(Db, file_path, line)
       IN IF hit # {}
          THEN /\ mapResult' = [op |-> "find_by_location", file_path |-> file_path,
                                line |-> line, value |-> (CHOOSE c \in hit : TRUE)[3],
                                raised |-> FALSE]
               /\ UNCHANGED location_cache
          ELSE /\ mapResult' = [op |-> "find_by_location", file_path |-> file_path,
                                line |-> line, value |-> found.value,
                                raised |-> found.raised]
               /\ location_cache' = IF found.value # NULL
                                    THEN location_cache \cup {<<file_path, line, found.value>>}
                                    ELSE location_cache
    /\ UNCHANGED <<file_entity_cache, storeVars, lspVars, scanVars, migVars, normVars,
                   readVars, parseVars>>

\* cache_location_to_uuid(location, entity_id)
CacheLocationToUuid(file_path, line, entity_id) ==
    /\ location_cache' = (location_cache \ Cached(file_path, line))
                            \cup {<<file_path, line, entity_id>>}
    /\ Cardinality(location_cache') <= MaxCached
    /\ mapResult' = [op |-> "cache_location_to_uuid", file_path |-> file_path,
                     line |-> line, value |-> entity_id, raised |-> FALSE]
    /\ UNCHANGED <<file_entity_cache, storeVars, lspVars, scanVars, migVars, normVars,
                   readVars, parseVars>>

\* clear_cache(): _location_cache and _symbol_hash_cache are cleared
ClearCache ==
    /\ location_cache' = {}
    /\ mapResult' = [op |-> "clear_cache", file_path |-> "", line |-> 0, value |-> NULL,
                     raised |-> FALSE]
    /\ UNCHANGED <<file_entity_cache, storeVars, lspVars, scanVars, migVars, normVars,
                   readVars, parseVars>>

\* clear_file_cache(file_path): the entities loaded for one file are forgotten
ClearFileCache(file_path) ==
    /\ file_entity_cache' = [file_entity_cache EXCEPT ![file_path] = NotLoaded]
    /\ mapResult' = [op |-> "clear_file_cache", file_path |-> file_path, line |-> 0,
                     value |-> NULL, raised |-> FALSE]
    /\ UNCHANGED <<location_cache, storeVars, lspVars, scanVars, migVars, normVars,
                   readVars, parseVars>>

MapperNext ==
    \/ \E p \in Paths, c \in Contents : EditFile(p, c)
    \/ \E p \in Paths, mi \in ModelIds : UpsertFile(p, mi)
    \/ MapperNew
    \/ \E p \in Paths, line \in 0..MaxLine : FindEnclosingEntity(p, line)
    \/ \E p \in Paths, line \in 0..MaxLine : FindByLocation(p, line)
    \/ \E e \in EntityIds(Db) : CacheLocationToUuid(python_files[1], FirstLine, e)
    \/ ClearCache
    \/ \E p \in Paths : ClearFileCache(p)

(***************************************************************************)
(* normalizer.py: PythonNormalizer.  A name is the sequence of its         *)
(* characters.                                                             *)
(***************************************************************************)
\* DUNDER_TO_CMM, as pairs of name and CMM type
DUNDER_TO_CMM ==
    <<
       <<<<"_", "_", "i", "n", "i", "t", "_", "_">>, "Constructor">>,
       <<<<"_", "_", "n", "e", "w", "_", "_">>, "Constructor">>,
       <<<<"_", "_", "s", "t", "r", "_", "_">>, "Display">>,
       <<<<"_", "_", "r", "e", "p", "r", "_", "_">>, "Display">>,
       <<<<"_", "_", "e", "q", "_", "_">>, "Equality">>,
       <<<<"_", "_", "n", "e", "_", "_">>, "Equality">>,
       <<<<"_", "_", "h", "a", "s", "h", "_", "_">>, "Equality">>,
       <<<<"_", "_", "l", "t", "_", "_">>, "Comparison">>,
       <<<<"_", "_", "l", "e", "_", "_">>, "Comparison">>,
       <<<<"_", "_", "g", "t", "_", "_">>, "Comparison">>,
       <<<<"_", "_", "g", "e", "_", "_">>, "Comparison">>,
       <<<<"_", "_", "l", "e", "n", "_", "_">>, "Collection">>,
       <<<<"_", "_", "g", "e", "t", "i", "t", "e", "m", "_", "_">>, "Collection">>,
       <<<<"_", "_", "s", "e", "t", "i", "t", "e", "m", "_", "_">>, "Collection">>,
       <<<<"_", "_", "d", "e", "l", "i", "t", "e", "m", "_", "_">>, "Collection">>,
       <<<<"_", "_", "i", "t", "e", "r", "_", "_">>, "Collection">>,
       <<<<"_", "_", "c", "o", "n", "t", "a", "i", "n", "s", "_", "_">>, "Collection">>,
       <<<<"_", "_", "e", "n", "t", "e", "r", "_", "_">>, "Context">>,
       <<<<"_", "_", "e", "x", "i", "t", "_", "_">>, "Context">>,
       <<<<"_", "_", "c", "a", "l", "l", "_", "_">>, "Callable">>,
       <<<<"_", "_", "d", "e", "l", "_", "_">>, "Destructor">>
    >>

\* name.startswith(prefix)
StartsWith(name, prefix) ==
    Len(name) >= Len(prefix) /\ SubSeq(name, 1, Len(prefix)) = prefix

\* name.endswith(suffix)
EndsWith(name, suffix) ==
    Len(name) >= Len(suffix) /\ SubSeq(name, Len(name) - Len(suffix) + 1, Len(name)) = suffix

\* mutant: every name is public
DetectVisibility_public(name, entity_type) == "public"

\* mutant: private exactly for the names with one leading underscore
DetectVisibility_single(name, entity_type) ==
    IF StartsWith(name, <<"_">>) /\ ~StartsWith(name, <<"_", "_">>) THEN "private"
    ELSE "public"

\* _detect_visibility
DetectVisibility(name, entity_type) ==
    IF StartsWith(name, <<"_", "_">>) /\ EndsWith(name, <<"_", "_">>) THEN "public"
    ELSE IF StartsWith(name, <<"_">>) THEN "private"
    ELSE "public"

\* mutant: the table is not consulted
GetCmmType_method(name) == "Method"

\* _get_cmm_type
GetCmmType(name) ==
    IF \E i \in 1..Len(DUNDER_TO_CMM) : DUNDER_TO_CMM[i][1] = name
    THEN DUNDER_TO_CMM[CHOOSE i \in 1..Len(DUNDER_TO_CMM) : DUNDER_TO_CMM[i][1] = name][2]
    ELSE "Method"

\* normalize_entity; a key the dict does not have is NoneStr here
RECURSIVE NormalizeEntity(_)
NormalizeEntity(entity) ==
    [entity EXCEPT
       !.visibility = DetectVisibility(entity.name, entity.type),
       !.cmm_type = IF entity.type = "function" THEN GetCmmType(entity.name)
                    ELSE IF entity.type = "class" THEN "Class"
                    ELSE @,
       !.method_kind = IF entity.type = "function" /\ @ = NoneStr THEN "instance" ELSE @,
       !.methods = [i \in 1..Len(@) |-> NormalizeEntity(@[i])]]

\* the names: every string of underscores and x up to MaxNameLen characters, the names
\* of the table, and the names of the examples
RECURSIVE Strings(_)
Strings(n) ==
    IF n = 0 THEN {<<>>}
    ELSE Strings(n - 1)
         \cup {Append(w, c) : w \in {v \in Strings(n - 1) : Len(v) = n - 1}, c \in {"_", "x"}}

Names ==
    (Strings(MaxNameLen) \ {<<>>})
    \cup {DUNDER_TO_CMM[i][1] : i \in 1..Len(DUNDER_TO_CMM)}
    \cup {<<"_", "h", "e", "l", "p", "e", "r">>,
          <<"_", "_", "d", "u", "n", "d", "e", "r", "_", "_">>,
          <<"h", "e", "l", "p", "e", "r">>}

\* _create_function_entity: the dict of a function before normalization; the normalizer
\* also takes a dict without the key method_kind
RawFunction(name, method_kind) ==
    [type |-> "function", name |-> name, line_start |-> 1, line_end |-> 1,
     docstring |-> "", method_kind |-> method_kind, dependencies |-> <<>>,
     methods |-> <<>>, visibility |-> NoneStr, cmm_type |-> NoneStr]

\* _create_class_entity with the methods _build_hierarchy has put under it
RawClass(name, methods) ==
    [type |-> "class", name |-> name, line_start |-> 0, line_end |-> 1,
     docstring |-> "", method_kind |-> NoneStr, dependencies |-> <<>>,
     methods |-> methods, visibility |-> NoneStr, cmm_type |-> NoneStr]

RawFunctions ==
    {RawFunction(name, kind) : name \in Names, kind \in {"instance", "static", "class", NoneStr}}

RawEntities ==
    RawFunctions
    \cup {RawClass(name, methods) :
            name \in {<<"x">>, <<"_", "x">>, <<"_", "_", "d", "u", "n", "d", "e", "r", "_", "_">>},
            methods \in {<<>>} \cup {<<f>> : f \in {g \in RawFunctions :
                                                      g.method_kind = "instance"}}}

NormalizeInit ==
    /\ disk = [p \in Paths |-> 1]
    /\ clock = 0
    /\ next_id = 0
    /\ files = <<>>
    /\ entities = <<>>
    /\ metadata = <<>>
    /\ relations = <<>>
    /\ lastCall = NoCall
    /\ calls = 0
    /\ LspInit
    /\ ScanIdle
    /\ MigIdle
    /\ MapperInit
    /\ raw \in RawEntities
    /\ normalized = NoEntity
    /\ ReadIdle
    /\ ParseIdle

\* scan_file hands the entity to normalize_entities (parser.py 190)
Normalize ==
    /\ normalized = NoEntity
    /\ normalized' = NormalizeEntity(raw)
    /\ UNCHANGED <<raw, storeVars, lspVars, scanVars, migVars, mapVars, readVars, parseVars>>

\* the scan stores what scan_file returned: upsert_file(file_path, cmm_entity)
StoreNormalized(p) ==
    /\ normalized # NoEntity
    /\ calls < MaxCalls
    /\ calls' = calls + 1
    /\ LET h == ComputeFileHash(disk[p])
           out == UpsertFileOutcome(Db, p, CMMEntity("v0.3", <<normalized>>), h, clock + 1)
       IN /\ Commit(out)
          /\ lastCall' = Call("upsert_file", p, NULL, h, NULL, NULL, "", out.result)
    /\ UNCHANGED <<disk, lspVars, scanVars, migVars, mapVars, normVars, readVars, parseVars>>

NormalizeNext ==
    \/ Normalize
    \/ \E p \in Paths : StoreNormalized(p)

(***************************************************************************)
(* lsp_client.py: LSPClient._read_response (282-304) on the text of the    *)
(* child's stdout.  The pipe is opened with text=True (lsp_client.py 115-  *)
(* 122), so the client sees each line end as the one character "\n".       *)
(***************************************************************************)
NL == "\n"

\* 'Content-Length:'
ContentLengthName ==
    <<"C", "o", "n", "t", "e", "n", "t", "-", "L", "e", "n", "g", "t", "h", ":">>

Digits == <<"0", "1", "2", "3", "4", "5", "6", "7", "8", "9">>

\* str(n) for the lengths of the bodies the server writes
Str(n) == <<Digits[n + 1]>>

\* the header line `Content-Length: <N>` and a header line of another name
ContentLengthHeader(n) == ContentLengthName \o <<" ">> \o Str(n) \o <<NL>>

OtherHeader == <<"X", "-", "A", ":", " ", "b", NL>>

\* the JSON texts the server sends as bodies
Bodies == { <<"{", "}">>, <<"[", "]">>, <<"[", "{", "}", "]">> }

\* the orders in which a server writes the Content-Length header and another header
HeaderOrders == {"length", "other-length", "length-other"}

Frame(order, body) == [order |-> order, body |-> body]

Frames == {Frame(order, body) : order \in HeaderOrders, body \in Bodies}

\* the text of one framed message: the header block, the blank line, the body
Encode(frame) ==
    LET length == ContentLengthHeader(Len(frame.body))
        headers == CASE frame.order = "length" -> length
                     [] frame.order = "other-length" -> OtherHeader \o length
                     [] frame.order = "length-other" -> length \o OtherHeader
    IN headers \o <<NL>> \o frame.body

\* the position of the first x in text, 0 when it holds none
RECURSIVE IndexFrom(_, _, _)
IndexFrom(text, x, i) ==
    IF i > Len(text) THEN 0
    ELSE IF text[i] = x THEN i
    ELSE IndexFrom(text, x, i + 1)

Find(text, x) == IndexFrom(text, x, 1)

Drop(text, n) == SubSeq(text, n + 1, Len(text))

IsSpace(c) == c \in {" ", NL}

\* text.strip()
RECURSIVE Strip(_)
Strip(text) ==
    IF text = <<>> THEN text
    ELSE IF IsSpace(Head(text)) THEN Strip(Tail(text))
    ELSE IF IsSpace(text[Len(text)]) THEN Strip(SubSeq(text, 1, Len(text) - 1))
    ELSE text

\* int(text): -1 stands for the ValueError int raises
RECURSIVE ParseInt(_, _)
ParseInt(text, acc) ==
    IF text = <<>> THEN acc
    ELSE LET d == Find(Digits, Head(text))
         IN IF d = 0 THEN -1 ELSE ParseInt(Tail(text), 10 * acc + (d - 1))

\* int(line.split(':')[1].strip())
ParseLength(line) ==
    LET after == Drop(line, Find(line, ":"))
        colon == Find(after, ":")
        field == Strip(IF colon = 0 THEN after ELSE SubSeq(after, 1, colon - 1))
    IN IF field = <<>> THEN -1 ELSE ParseInt(field, 0)

\* json.loads accepts a text that is one JSON value between optional whitespace; the
\* values of these texts are {}, [] and lists of one value
RECURSIVE IsJsonValue(_)
IsJsonValue(text) ==
    \/ text = <<"{", "}">>
    \/ text = <<"[", "]">>
    \/ /\ Len(text) > 2
       /\ Head(text) = "["
       /\ text[Len(text)] = "]"
       /\ IsJsonValue(SubSeq(text, 2, Len(text) - 1))

\* what _read_response does and what it leaves in the stream
ReadOutcome(status, value, rest) == [status |-> status, value |-> value, rest |-> rest]

\* `self.process.stdout.readline()` after the loop (lsp_client.py 296-297): the line
\* that follows the Content-Length line is read, whatever it holds
BlankLineEnd(text) == Find(text, NL)

\* the while loop of _read_response (lsp_client.py 289-294) and what follows it; a
\* readline or a read that finds too little in the pipe waits for the server
RECURSIVE ReadResponseFrom(_)
ReadResponseFrom(text) ==
    LET eol == Find(text, NL)
        line == SubSeq(text, 1, eol)
        rest == Drop(text, eol)
    IN IF eol = 0 THEN ReadOutcome("waits", <<>>, text)
       ELSE IF ~StartsWith(line, ContentLengthName) THEN ReadResponseFrom(rest)
       ELSE LET length == ParseLength(line)
                blank == BlankLineEnd(rest)
                after == Drop(rest, blank)
                message == SubSeq(after, 1, length)
            IN IF length < 0 THEN ReadOutcome("None", <<>>, rest)       \* ValueError
               ELSE IF Find(rest, NL) = 0 \/ Len(after) < length
                    THEN ReadOutcome("waits", <<>>, text)
               ELSE IF IsJsonValue(Strip(message))
                    THEN ReadOutcome("message", Strip(message), Drop(after, length))
               ELSE ReadOutcome("None", <<>>, Drop(after, length))      \* JSONDecodeError

\* the server writes one framed message to its stdout
ServerWrite(frame) ==
    /\ written < MaxFrames
    /\ written' = written + 1
    /\ stream' = stream \o Encode(frame)
    /\ UNCHANGED <<readResult, storeVars, lspVars, scanVars, migVars, mapVars, normVars, parseVars>>

\* one call of _read_response that returns
ReadResponse ==
    /\ LET out == ReadResponseFrom(stream)
       IN /\ out.status # "waits"
          /\ stream' = out.rest
          /\ readResult' = [op |-> out.status, value |-> out.value]
    /\ UNCHANGED <<written, storeVars, lspVars, scanVars, migVars, mapVars, normVars, parseVars>>

ReaderNext ==
    \/ \E frame \in Frames : ServerWrite(frame)
    \/ ReadResponse

(***************************************************************************)
(* Pass 2 writes (cli.py 222-240) on the store a scan left of two files    *)
(* that define the same class: two entities of one name exist.             *)
(***************************************************************************)
TwinStore ==
    LET a == UpsertFileOutcome(EmptyDb, "a.py", CalculatorModel, ComputeFileHash(1), 1)
    IN UpsertFileOutcome(a.db, "b.py", CalculatorModel, ComputeFileHash(1), a.clock + 1)

VerifyInit ==
    /\ disk = [p \in Paths |-> 1]
    /\ \E start \in {TwinStore} :
          /\ clock = start.clock
          /\ next_id = start.db.next_id
          /\ files = start.db.files
          /\ entities = start.db.entities
          /\ metadata = start.db.metadata
          /\ relations = start.db.relations
    /\ lastCall = NoCall
    /\ calls = 0
    /\ LspInit
    /\ ScanIdle
    /\ MigIdle
    /\ MapperInit
    /\ NormIdle
    /\ ReadIdle
    /\ ParseIdle

VerifyNext ==
    \/ \E a \in KnownIds, b \in KnownIds, r \in RelTypes : SaveVerifiedRelation(a, b, r)
    \/ \E e \in KnownIds, sig \in Signatures : SaveTypeHint(e, sig)

(***************************************************************************)
(* The store API called with models nested as deep as the limit of         *)
(* _save_entity_recursive (storage.py 267-274) and deeper.                 *)
(***************************************************************************)
\* levels functions f, each the only method of the one before; the last one holds the
\* function g, which holds the function h
Nest(levels) ==
    Entity("f", "function", "public", "", "Method", "instance", <<0, 3>>, <<>>,
           << Entity("g", "function", "public", "", "Method", "instance", <<1, 3>>, <<>>,
                << Entity("h", "function", "public", "", "Method", "instance", <<2, 3>>,
                          <<>>, <<>>) >>) >>)
      @@ [run |-> levels]

\* a model of one nest, followed or not by a top-level class with one method
DeepModel(levels, tail) ==
    CMMEntity("v0.3", <<Nest(levels)>> \o (IF tail THEN CalculatorModel.entities ELSE <<>>))

DeepLevels == (MaxDepth - 1)..(MaxDepth + MaxBeyond)

DeepInit ==
    /\ disk = [p \in Paths |-> 1]
    /\ clock = 0
    /\ next_id = 0
    /\ files = <<>>
    /\ entities = <<>>
    /\ metadata = <<>>
    /\ relations = <<>>
    /\ lastCall = NoCall
    /\ calls = 0
    /\ LspInit
    /\ ScanIdle
    /\ MigIdle
    /\ MapperInit
    /\ NormIdle
    /\ ReadIdle
    /\ ParseIdle

UpsertDeep(p, levels, tail) ==
    /\ calls < MaxDeepCalls
    /\ calls' = calls + 1
    /\ LET h == ComputeFileHash(disk[p])
           out == UpsertFileOutcome(Db, p, DeepModel(levels, tail), h, clock + 1)
       IN /\ Commit(out)
          /\ lastCall' = Call("upsert_file", p, <<levels, tail>>, h, NULL, NULL, "",
                              out.result)
    /\ UNCHANGED <<disk, lspVars, scanVars, migVars, mapVars, normVars, readVars, parseVars>>

SaveDeep(p, levels, tail) ==
    /\ calls < MaxDeepCalls
    /\ calls' = calls + 1
    /\ LET h == ComputeFileHash(disk[p])
           out == SaveFileOutcome(Db, p, DeepModel(levels, tail), h, clock + 1)
       IN /\ Commit(out)
          /\ lastCall' = Call("save_file", p, <<levels, tail>>, h, NULL, NULL, "",
                              out.result)
    /\ UNCHANGED <<disk, lspVars, scanVars, migVars, mapVars, normVars, readVars, parseVars>>

DeepNext ==
    \/ \E p \in Paths, c \in Contents : EditFile(p, c)
    \/ \E p \in Paths, levels \in DeepLevels, tail \in BOOLEAN : UpsertDeep(p, levels, tail)
    \/ \E p \in Paths, levels \in DeepLevels, tail \in BOOLEAN : SaveDeep(p, levels, tail)

(***************************************************************************)
(* parser.py: TreeSitterParser.scan_file and extract_call_sites on the     *)
(* class and function definitions of one file.                             *)
(***************************************************************************)
\* a class_definition or function_definition node.  enclosing is the position in the file
\* of the nearest definition around the node, 0 at module level; decorated says that the
\* function stands in a decorated_definition whose decorator is an identifier; calls are
\* the nodes CALL_QUERY captures in the body outside the definitions nested in it
DefNode(type, enclosing, decorated, body_calls) ==
    [type |-> type, enclosing |-> enclosing, decorated |-> decorated, calls |-> body_calls]

\* the functions of the files: `def f(): pass`, `def f(): print(x); helper(); self.helper()`
\* and `@cache def f(): other()`, as the decorated flag and the calls of a DefNode
FunctionShapes ==
    { <<FALSE, <<>> >>,
      <<FALSE, << Capture("call.function", "print", 0, 4),
                  Capture("call.function", "helper", 0, 14),
                  Capture("call.object", "self", 0, 24),
                  Capture("call.method", "helper", 0, 29) >> >>,
      <<TRUE, << Capture("call.function", "other", 0, 4) >> >> }

\* the definitions that are open after the last definition of src: a further definition
\* stands in one of them or at module level
RECURSIVE Around(_, _)
Around(src, i) == IF i = 0 THEN {0} ELSE {i} \cup Around(src, src[i].enclosing)

\* the files of n definitions
RECURSIVE SourcesOf(_)
SourcesOf(n) ==
    IF n = 0 THEN {<<>>}
    ELSE UNION {{Append(src, DefNode("class", e, FALSE, <<>>)) : e \in Around(src, n - 1)}
                \cup {Append(src, DefNode("function", e, f[1], f[2])) :
                        e \in Around(src, n - 1), f \in FunctionShapes} :
                  src \in SourcesOf(n - 1)}

Sources == UNION {SourcesOf(n) : n \in 1..MaxDefs}

\* node.text of the name of definition i, and the lines of the definition
DefName(i) == <<"d", Digits[i + 1]>>

LineEnd(src, i) ==
    CHOOSE last \in i..Len(src) :
       /\ \A j \in i..last : i \in Around(src, j)
       /\ last = Len(src) \/ i \notin Around(src, last + 1)

\* a node CMM_QUERY captures: the capture name and the definition the node belongs to
DefCapture(capture_name, i) == [capture |-> capture_name, node |-> i]

\* cursor.captures(tree.root_node) of cmm_query before grouping, in document order: a
\* decorated function matches the pattern of decorated_definition and the pattern of
\* function_definition, so its name and its body are captured under two names each
RECURSIVE CmmCaptures(_, _)
CmmCaptures(src, i) ==
    IF i > Len(src) THEN <<>>
    ELSE (IF src[i].type = "class" THEN << DefCapture("class.name", i) >>
          ELSE IF src[i].decorated
          THEN << DefCapture("decorator.name", i),
                  DefCapture("decorated_function.name", i),
                  DefCapture("function.name", i),
                  DefCapture("decorated_function.body", i),
                  DefCapture("function.body", i) >>
          ELSE << DefCapture("function.name", i), DefCapture("function.body", i) >>)
         \o CmmCaptures(src, i + 1)

\* captures = [(node, capture_name) for capture_name, nodes in captures_dict.items()
\*             for node in nodes]  (parser.py 145-149)
RECURSIVE Flattened(_, _)
Flattened(caps, keys) ==
    IF keys = <<>> THEN <<>>
    ELSE SelectSeq(caps, LAMBDA c : c.capture = Head(keys)) \o Flattened(caps, Tail(keys))

NameCaptures == {"class.name", "function.name", "decorated_function.name"}

BodyCaptures == {"function.body", "decorated_function.body"}

\* Pass 1: the keys of node_to_entity in the order in which the dict got them; creating
\* the entity of a node a second time keeps the place of its key
RECURSIVE NodeToEntity(_, _)
NodeToEntity(captures, keys) ==
    IF captures = <<>> THEN keys
    ELSE NodeToEntity(Tail(captures),
                      IF /\ Head(captures).capture \in NameCaptures
                         /\ \A k \in 1..Len(keys) : keys[k] # Head(captures).node
                      THEN Append(keys, Head(captures).node)
                      ELSE keys)

\* cursor.captures(body_node) of call_query: the captured nodes of the body of definition
\* i, those of the definitions nested in it included, in document order
RECURSIVE CallCaptures(_, _, _)
CallCaptures(src, i, j) ==
    IF j > Len(src) THEN <<>>
    ELSE (IF i \in Around(src, j)
          THEN [k \in 1..Len(src[j].calls) |-> [src[j].calls[k] EXCEPT !.line = j]]
          ELSE <<>>)
         \o CallCaptures(src, i, j + 1)

\* _extract_calls_from_body: the dependencies one call of it appends; order is the order in
\* which the sets of this process iterate
ExtractCallsFromBody(src, i, order) ==
    LET caps == CallCaptures(src, i, i)
        call_names == {caps[k].text : k \in 1..Len(caps)} \ PYTHON_BUILTINS
        names == SelectSeq(order, LAMBDA name : name \in call_names)
    IN [k \in 1..Len(names) |-> Dep(names[k], "calls")]

\* Pass 2: entity["dependencies"] of definition i after the loop over the captures
RECURSIVE Dependencies(_, _, _, _)
Dependencies(src, captures, i, order) ==
    IF captures = <<>> THEN <<>>
    ELSE (IF Head(captures).capture \in BodyCaptures /\ Head(captures).node = i
          THEN ExtractCallsFromBody(src, i, order)
          ELSE <<>>)
         \o Dependencies(src, Tail(captures), i, order)

\* mutant: the walk goes on until it meets a class
RECURSIVE EnclosingEntity_class(_, _, _)
EnclosingEntity_class(src, node_to_entity, current) ==
    IF current = 0 THEN 0
    ELSE IF src[current].type = "class" THEN current
    ELSE EnclosingEntity_class(src, node_to_entity, src[current].enclosing)

\* _build_hierarchy, the walk up the tree: the first node from current up that has an
\* entity, 0 when there is none
RECURSIVE EnclosingEntity(_, _, _)
EnclosingEntity(src, node_to_entity, current) ==
    IF current = 0 THEN 0
    ELSE IF \E k \in 1..Len(node_to_entity) : node_to_entity[k] = current THEN current
    ELSE EnclosingEntity(src, node_to_entity, src[current].enclosing)

\* _build_hierarchy: the class under which definition i is nested, 0 when it is not nested
ParentClass(src, node_to_entity, i) ==
    LET parent == EnclosingEntity(src, node_to_entity, src[i].enclosing)
    IN IF parent # 0 /\ src[parent].type = "class" /\ src[i].type = "function"
       THEN parent ELSE 0

\* _build_hierarchy: parent_entity["methods"] of class c after the loop over the captures
RECURSIVE MethodsOf(_, _, _, _, _)
MethodsOf(src, node_to_entity, captures, c, methods) ==
    IF captures = <<>> THEN methods
    ELSE MethodsOf(src, node_to_entity, Tail(captures), c,
                   IF /\ Head(captures).capture \in NameCaptures
                      /\ ParentClass(src, node_to_entity, Head(captures).node) = c
                      /\ \A k \in 1..Len(methods) : methods[k] # Head(captures).node
                   THEN Append(methods, Head(captures).node)
                   ELSE methods)

\* the dict of definition i when scan_file hands it to the normalizer; the decorator of a
\* decorated function is neither staticmethod nor classmethod
RawDefinition(src, node_to_entity, captures, i, order) ==
    [type |-> src[i].type, name |-> DefName(i),
     line_start |-> i, line_end |-> LineEnd(src, i),
     docstring |-> "",
     method_kind |-> IF src[i].type = "function" THEN "instance" ELSE NoneStr,
     dependencies |-> Dependencies(src, captures, i, order),
     methods |-> IF src[i].type = "class"
                 THEN LET ms == MethodsOf(src, node_to_entity, captures, i, <<>>)
                      IN [k \in 1..Len(ms) |->
                            [type |-> "function", name |-> DefName(ms[k]),
                             line_start |-> ms[k], line_end |-> LineEnd(src, ms[k]),
                             docstring |-> "", method_kind |-> "instance",
                             dependencies |-> Dependencies(src, captures, ms[k], order),
                             methods |-> <<>>, visibility |-> NoneStr,
                             cmm_type |-> NoneStr]]
                 ELSE <<>>,
     visibility |-> NoneStr, cmm_type |-> NoneStr]

\* scan_file: the entities of the CMMEntity it returns
ScanFileEntities(src, order) ==
    LET caps == CmmCaptures(src, 1)
        captures == Flattened(caps, CaptureNames(caps, <<>>))
        node_to_entity == NodeToEntity(captures, <<>>)
        final == SelectSeq(node_to_entity,
                           LAMBDA i : ParentClass(src, node_to_entity, i) = 0)
    IN [k \in 1..Len(final) |->
          NormalizeEntity(RawDefinition(src, node_to_entity, captures, final[k], order))]

\* extract_call_sites: the call sites of the whole file
ExtractCallSites(src) ==
    LET caps == CallCaptures(src, 0, 1)
    IN SitesOfKeys(caps, CaptureNames(caps, <<>>))

\* the orders in which a set of the call names can iterate
SetOrders == { <<"helper", "other">>, <<"other", "helper">> }

ParseInit ==
    /\ disk = [p \in Paths |-> 1]
    /\ clock = 0
    /\ next_id = 0
    /\ files = <<>>
    /\ entities = <<>>
    /\ metadata = <<>>
    /\ relations = <<>>
    /\ lastCall = NoCall
    /\ calls = 0
    /\ LspInit
    /\ ScanIdle
    /\ MigIdle
    /\ MapperInit
    /\ NormIdle
    /\ ReadIdle
    /\ source \in Sources
    /\ cmm = NoScan
    /\ call_sites = NoScan

\* parser.scan_file(file_path)
ParserScanFile(order) ==
    /\ cmm = NoScan
    /\ cmm' = [op |-> "scan_file", value |-> ScanFileEntities(source, order)]
    /\ UNCHANGED <<source, call_sites, storeVars, lspVars, scanVars, migVars, mapVars,
                   normVars, readVars>>

\* parser.extract_call_sites(file_path)
ParserExtractCallSites ==
    /\ call_sites = NoScan
    /\ call_sites' = [op |-> "extract_call_sites", value |-> ExtractCallSites(source)]
    /\ UNCHANGED <<source, cmm, storeVars, lspVars, scanVars, migVars, mapVars, normVars,
                   readVars>>

ParseNext ==
    \/ \E order \in SetOrders : ParserScanFile(order)
    \/ ParserExtractCallSites

(***************************************************************************)
(* The specifications.                                                     *)
(***************************************************************************)
StoreOnlyInit ==
    /\ StoreInit
    /\ LspInit
    /\ ScanIdle
    /\ MigIdle
    /\ MapperInit
    /\ NormIdle
    /\ ReadIdle
    /\ ParseIdle

SpecStore == StoreOnlyInit /\ [][StoreNext]_vars

SpecFault == StoreOnlyInit /\ [][FaultNext]_vars

SpecLsp == LspOnlyInit /\ [][LspNext]_vars

SpecScan == ScanInit /\ [][ScanNext]_vars

SpecInterrupt == InterruptInit /\ [][InterruptNext]_vars

SpecMigrate == MigrateInit /\ [][MigrateNext]_vars

SpecMapper == StoreOnlyInit /\ [][MapperNext]_vars

SpecNormalize == NormalizeInit /\ [][NormalizeNext]_vars

SpecReader == StoreOnlyInit /\ [][ReaderNext]_vars

SpecVerify == VerifyInit /\ [][VerifyNext]_vars

SpecDelegate == StoreOnlyInit /\ [][DelegateNext]_vars

SpecDeep == DeepInit /\ [][DeepNext]_vars

SpecParse == ParseInit /\ [][ParseNext]_vars

(***************************************************************************)
(* Properties of the store.                                                *)
(***************************************************************************)
tables == <<files, entities, metadata, relations>>

\* this step is a call of the store API
IsCall == calls' = calls + 1

\* the call of this step wrote the model: the file had no row, or a row with another hash
Wrote == \/ ~HasFileRow(Db, lastCall'.file)
         \/ FileRow(Db, lastCall'.file).file_hash # lastCall'.hash

OwnedIds(db, file_path) ==
    {db.metadata[i].entity_id : i \in {j \in 1..Len(db.metadata) :
                                         db.metadata[j].file_path = file_path}}

\* a list without its later duplicates
RECURSIVE Distinct(_)
Distinct(xs) ==
    IF xs = <<>> THEN <<>>
    ELSE LET rest == Distinct(SubSeq(xs, 1, Len(xs) - 1))
             last == xs[Len(xs)]
         IN IF \E i \in 1..Len(rest) : rest[i] = last THEN rest ELSE Append(rest, last)

\* an entity tree without ids and line spans
RECURSIVE View(_), Outline(_), DistinctDeps(_)
View(e) ==
    [name |-> e.name, type |-> e.type, visibility |-> e.visibility,
     docstring |-> e.docstring, cmm_type |-> e.cmm_type, method_kind |-> e.method_kind,
     dependencies |-> e.dependencies,
     methods |-> [i \in 1..Len(e.methods) |-> View(e.methods[i])]]

\* the names, kinds and nesting of an entity tree
Outline(e) ==
    [name |-> e.name, type |-> e.type,
     methods |-> [i \in 1..Len(e.methods) |-> Outline(e.methods[i])]]

\* an entity tree in which each entity names each (to_name, rel_type) once
DistinctDeps(e) ==
    [e EXCEPT !.dependencies = Distinct(@),
              !.methods = [i \in 1..Len(@) |-> DistinctDeps(@[i])]]

ModelView(m) == [schema_version |-> m.schema_version,
                 entities |-> [i \in 1..Len(m.entities) |-> View(m.entities[i])]]

ModelOutline(m) == [i \in 1..Len(m.entities) |-> Outline(m.entities[i])]

ModelDistinctDeps(m) ==
    [m EXCEPT !.entities = [i \in 1..Len(@) |-> DistinctDeps(@[i])]]

\* C1: a second consecutive upsert_file(f, m), with the bytes of f unchanged between the
\* two calls, changes no row of files, entities, metadata or relations.
C1_SecondUpsertChangesNothing ==
    [][(IsCall /\ lastCall'.op = "upsert_file" /\ lastCall'.repeat)
         => UNCHANGED tables]_vars

C1_Witness ==
    /\ lastCall.op = "upsert_file"
    /\ lastCall.repeat
    /\ OwnedIds(Db, lastCall.file) # {}

\* C2: after upsert_file(f, m2) on a file whose row holds another hash, the entities owned
\* by f are exactly those of m2 (get_file returns m2's entity tree, under fresh ids), and
\* no entities, metadata or relations row of f's previous entities remains.
C2_RewriteReplacesEntities ==
    [][(/\ IsCall /\ lastCall'.op = "upsert_file" /\ lastCall'.result = "ok"
        /\ HasFileRow(Db, lastCall'.file)
        /\ FileRow(Db, lastCall'.file).file_hash # lastCall'.hash)
         => LET f == lastCall'.file
                m2 == ModelTable[lastCall'.model]
                old == OwnedIds(Db, f)
            IN /\ ModelOutline(GetFile(Db', f)) = ModelOutline(m2)
               /\ OwnedIds(Db', f) \cap EntityIds(Db) = {}
               /\ \A i \in 1..Len(entities') : entities'[i].id \notin old
               /\ \A i \in 1..Len(metadata') : metadata'[i].entity_id \notin old
               /\ \A i \in 1..Len(relations') : relations'[i].from_id \notin old]_vars

C2_Witness ==
    /\ lastCall.op = "upsert_file"
    /\ lastCall.result = "ok"
    /\ lastCall.model = 3
    /\ lastCall.hash = ComputeFileHash(2)
    /\ \E i \in 1..Len(files) : files[i].file_path = lastCall.file /\ files[i].created_at < files[i].updated_at
    /\ next_id > Len(entities)

C4_RelationsUnique ==
    /\ \A i, j \in 1..Len(relations) :
          RelKey(relations[i]) = RelKey(relations[j]) => i = j
    /\ lastCall.op \in {"save_file", "upsert_file"} => lastCall.result = "ok"

C4_Witness ==
    /\ lastCall.op \in {"save_file", "upsert_file"}
    /\ lastCall.model = 3
    /\ Cardinality({i \in 1..Len(relations) : relations[i].to_name = "Base"}) = 1
    /\ \E i \in 1..Len(relations) : relations[i].is_verified

\* C5: save_verified_relation(a, b, r) on stored entities a and b leaves a row
\* (a, b, name(b), r, verified); an existing row (a, name(b), r) is updated in place, no
\* row is added for it, and a second identical call changes nothing.
C5_VerifiedRelationSaved ==
    [][(/\ IsCall /\ lastCall'.op = "save_verified_relation"
        /\ lastCall'.from_id \in EntityIds(Db) /\ lastCall'.to_id \in EntityIds(Db))
         => LET a == lastCall'.from_id
                b == lastCall'.to_id
                r == lastCall'.rel_type
                name == Head(SelectSeq(entities, LAMBDA e : e.id = b)).name
                row == [from_id |-> a, to_id |-> b, to_name |-> name, rel_type |-> r,
                        is_verified |-> TRUE]
                was == RelIndex(Db, <<a, name, r>>)
            IN /\ lastCall'.result = "ok"
               /\ \E i \in 1..Len(relations') : relations'[i] = row
               /\ was # {} => /\ Len(relations') = Len(relations)
                              /\ \A i \in 1..Len(relations) :
                                    relations'[i] = IF i \in was THEN row ELSE relations[i]
               /\ was = {} => relations' = Append(relations, row)
               /\ lastCall'.repeat => relations' = relations
               /\ UNCHANGED <<files, entities, metadata>>]_vars

C5_Witness ==
    /\ lastCall.op = "save_verified_relation"
    /\ lastCall.repeat
    /\ Len(relations) = 3
    /\ \E i \in 1..Len(relations) :
          /\ relations[i].to_name = "add"
          /\ relations[i].is_verified
          /\ relations[i].to_id = lastCall.to_id
          /\ relations[i].from_id = lastCall.from_id

(***************************************************************************)
(* Properties of the client and of the scan.                               *)
(***************************************************************************)
Queries == {"get_definition", "get_hover"}

\* C6: in the two-file scenario (a.py defines Calculator.add, b.py defines use_calculator,
\* which calls calc.add), with a server that answers every request with a value, a scan
\* that completed Pass 1 and Pass 2 leaves a verified calls relation from use_calculator's
\* entity to add's entity, and a type_hint on add's metadata row.
C6_TwoFileCallVerified ==
    (/\ pc = "done" /\ report = "pass2" /\ server_ok
     /\ disk = [p \in Paths |-> 1] /\ scanned = Len(python_files))
      => \E u, a \in 1..Len(entities) :
            /\ entities[u].name = "use_calculator"
            /\ entities[a].name = "add"
            /\ \E i \in 1..Len(relations) :
                  /\ relations[i].from_id = entities[u].id
                  /\ relations[i].to_id = entities[a].id
                  /\ relations[i].rel_type = "calls"
                  /\ relations[i].is_verified
            /\ \E k \in 1..Len(metadata) :
                  /\ metadata[k].entity_id = entities[a].id
                  /\ metadata[k].type_hint # NoneStr

\* C7: get_definition and get_hover called on a client that is not initialized (never
\* started, start failed, or shut down) return None at once, write nothing to the server
\* and leave the client and the server as they were.
C7_NotReadyReturnsNone ==
    [][(~initialized /\ (ClientGetDefinition \/ ClientGetHover))
         => /\ lspResult'.op \in Queries
            /\ lspResult'.value = "None"
            /\ lspPc' = "idle"
            /\ UNCHANGED <<process, child, initialized, request_id, sent, stdout>>]_vars

\* a start that failed after the child was spawned, then a query
C7_Witness ==
    /\ ~initialized
    /\ process = "Popen"
    /\ child = "alive"
    /\ lspPc = "idle"
    /\ lspResult.op \in Queries
    /\ lspResult.value = "None"

\* C8: once the server process has exited, a get_definition or get_hover request that waits
\* for its reply with nothing left to read in the child's stdout returns; and after a
\* request failed on the broken pipe the client is stopped (not initialized).
C8_ExitEndsPendingRequest ==
    /\ (/\ lspPc = "reading" /\ pending.op \in Queries
        /\ child = "exited" /\ stdout = <<>>) => ENABLED ClientRead
    /\ (/\ lspPc = "idle" /\ child = "exited" /\ lspResult.op \in Queries
        /\ lspResult.id = request_id /\ lspResult.from = 0) => ~initialized

\* C9: a Pass 1 file whose scan raises adds one to errors, leaves every stored row as it
\* was, and the loop goes on with the next file; after Pass 1 scanned + errors is the number
\* of files, and every readable file has a file row with the hash of its bytes.
C9_ScanErrorIsCounted ==
    /\ [](pc \notin {"idle", "pass1"}
            => /\ scanned + errors = Len(python_files)
               /\ \A p \in Paths :
                     disk[p] # Unreadable
                       => /\ HasFileRow(Db, p)
                          /\ FileRow(Db, p).file_hash = ComputeFileHash(disk[p]))
    /\ [][(Pass1File /\ ScanFile(python_files[idx], disk[python_files[idx]]) = NULL)
            => /\ errors' = errors + 1
               /\ scanned' = scanned
               /\ idx' = idx + 1
               /\ pc' = "pass1"
               /\ UNCHANGED tables]_vars

\* the first file cannot be read and keeps its rows; the second, edited, is stored anew
C9_Witness ==
    /\ pc = "done"
    /\ errors = 1
    /\ scanned = 1
    /\ disk["a.py"] = Unreadable
    /\ HasFileRow(Db, "a.py")
    /\ HasFileRow(Db, "b.py")
    /\ FileRow(Db, "b.py").file_hash = ComputeFileHash(2)

\* C10: when is_available() returns False no child is spawned and no message is written;
\* no step after Pass 1 changes a row; every relation is unverified; and scan_directory
\* returns, after the Pass 1 completion line, with no step left to take.
C10_ProbeFailureSkipsPass2 ==
    /\ [](probe_failed
            => /\ process = "None" /\ child = "none" /\ sent = <<>> /\ request_id = 0
               /\ \A i \in 1..Len(relations) : ~relations[i].is_verified
               /\ report = "pass1"
               /\ \/ pc = "done"
                  \/ pc = "starting" /\ lspPc = "idle" /\ lspResult.value = "False")
    /\ [][(probe_failed' /\ pc \notin {"idle", "pass1"}) => UNCHANGED tables]_vars

C10_Witness ==
    /\ pc = "done"
    /\ probe_failed
    /\ enable_lsp
    /\ scanned = Len(python_files)
    /\ relations # <<>>
    /\ lspResult.op = "none"

(***************************************************************************)
(* Properties of the store under failing statements, and of its rows.      *)
(***************************************************************************)
\* C11: a save_file or upsert_file call that ends with an exception, whichever statement
\* failed, leaves files, entities, metadata and relations exactly as they were.
C11_FailedWriteChangesNothing ==
    [][(IsCall /\ lastCall'.op \in {"save_file", "upsert_file"} /\ lastCall'.result = "raised")
         => UNCHANGED tables]_vars

\* a rewrite of a stored file with changed bytes failed, and its old rows are in place
C11_Witness ==
    /\ lastCall.op = "upsert_file"
    /\ lastCall.result = "raised"
    /\ HasFileRow(Db, lastCall.file)
    /\ FileRow(Db, lastCall.file).file_hash # lastCall.hash
    /\ OwnedIds(Db, lastCall.file) # {}

\* the step is an upsert_file that rewrote a stored file whose bytes had changed
Rewrote ==
    /\ IsCall /\ lastCall'.op = "upsert_file" /\ lastCall'.result = "ok"
    /\ HasFileRow(Db, lastCall'.file)
    /\ FileRow(Db, lastCall'.file).file_hash # lastCall'.hash

\* C12: when a changed file f is re-ingested, each relation from an entity outside f to a
\* destroyed entity of f is kept under its (from_id, to_name, rel_type), and afterwards its
\* to_id names no destroyed entity and it is not verified.
C12_InboundRelationsUnresolved ==
    [][Rewrote
         => LET destroyed == OwnedIds(Db, lastCall'.file)
            IN \A i \in 1..Len(relations) :
                  (relations[i].from_id \notin destroyed /\ relations[i].to_id \in destroyed)
                    => \E j \in 1..Len(relations') :
                          /\ RelKey(relations'[j]) = RelKey(relations[i])
                          /\ relations'[j].to_id \notin destroyed
                          /\ ~relations'[j].is_verified]_vars

\* the ids on the parent_id chain of entity id, at most n links up
RECURSIVE Ancestors(_, _, _)
Ancestors(ents, id, n) ==
    LET rows == SelectSeq(ents, LAMBDA r : r.id = id)
    IN IF n = 0 \/ rows = <<>> \/ Head(rows).parent_id = NULL THEN {}
       ELSE {Head(rows).parent_id} \cup Ancestors(ents, Head(rows).parent_id, n - 1)

\* C13: after a step that deletes entity e, no metadata row of e, no relation with
\* from_id = e and no entity with e among its ancestors remains.
C13_DeleteCascades ==
    [][\A e \in EntityIds(Db) \ EntityIds(Db') :
          /\ \A k \in 1..Len(metadata') : metadata'[k].entity_id # e
          /\ \A k \in 1..Len(relations') : relations'[k].from_id # e
          /\ \A k \in 1..Len(entities') :
                e \notin Ancestors(entities', entities'[k].id, Len(entities'))
                /\ entities'[k].parent_id # e]_vars

\* a.py, whose class Calculator holds the method add and whose add was the verified target
\* of a call, was rewritten: neither entity is left
C13_Witness ==
    /\ lastCall.op = "upsert_file"
    /\ lastCall.result = "ok"
    /\ lastCall.file = "a.py"
    /\ lastCall.hash = ComputeFileHash(2)
    /\ \A k \in 1..Len(entities) : entities[k].name \notin {"Calculator", "add"}
    /\ \E k \in 1..Len(relations) : relations[k].is_verified

\* C14: every entities row has exactly one metadata row, and every metadata row names an
\* entities row.
C14_OneMetadataPerEntity ==
    /\ \A i \in 1..Len(entities) :
          Cardinality({k \in 1..Len(metadata) : metadata[k].entity_id = entities[i].id}) = 1
    /\ \A k \in 1..Len(metadata) : metadata[k].entity_id \in EntityIds(Db)

\* after a rewrite and a type hint
C14_Witness ==
    /\ lastCall.op = "save_type_hint"
    /\ \E k \in 1..Len(metadata) : metadata[k].type_hint # NoneStr
    /\ next_id > Len(entities)
    /\ Len(entities) >= 3

\* the entities of a model, nested ones included
RECURSIVE Flat(_)
Flat(ents) ==
    IF ents = <<>> THEN <<>>
    ELSE <<Head(ents)>> \o Flat(Head(ents).methods) \o Flat(Tail(ents))

\* C15: after save_file or upsert_file has written a model, each entity of the model has
\* one stored entity, and each distinct (name, rel_type) it emits is one relation row of
\* that entity, with to_id NULL and not verified, whether or not the name is the name of
\* a stored entity.
C15_DependenciesStoredUnresolved ==
    [][(/\ IsCall /\ lastCall'.op \in {"save_file", "upsert_file"}
        /\ lastCall'.result = "ok" /\ Wrote)
         => LET f == lastCall'.file
                flat == Flat(ModelTable[lastCall'.model].entities)
            IN \A x \in 1..Len(flat) :
                  \E e \in 1..Len(entities') :
                     /\ entities'[e].name = flat[x].name
                     /\ entities'[e].id \in OwnedIds(Db', f)
                     /\ \A d \in 1..Len(flat[x].dependencies) :
                           LET dep == flat[x].dependencies[d]
                               rows == {k \in 1..Len(relations') :
                                          RelKey(relations'[k])
                                            = <<entities'[e].id, dep.name, dep.rel_type>>}
                           IN /\ Cardinality(rows) = 1
                              /\ \A k \in rows : /\ relations'[k].to_id = NULL
                                                  /\ ~relations'[k].is_verified]_vars

\* the model whose method calls external_thing was saved
C15_Witness ==
    /\ lastCall.op = "save_file"
    /\ lastCall.result = "ok"
    /\ lastCall.model = 3
    /\ \E k \in 1..Len(relations) :
          /\ relations[k].to_name = "external_thing"
          /\ relations[k].to_id = NULL
          /\ ~relations[k].is_verified

(***************************************************************************)
(* Properties of Pass 2 and of the client's life cycle.                    *)
(***************************************************************************)
\* how many call sites of the file lie in a stored entity of the file
EnclosedCallSites(file_path) ==
    LET sites == CallSites(file_path, disk[file_path])
    IN Cardinality({i \in 1..Len(sites) : HasEnclosingEntity(Db, file_path, sites[i].line)})

RECURSIVE SumEnclosed(_)
SumEnclosed(fs) ==
    IF fs = <<>> THEN 0 ELSE EnclosedCallSites(Head(fs)) + SumEnclosed(Tail(fs))

\* C16: when Pass 2 has completed, every call site that lies in an entity has had one of
\* the outcomes resolved, failed, external: the three counters add up to the number of
\* those call sites.
C16_EveryCallSiteCounted ==
    (pc = "done" /\ report = "pass2")
      => stats.resolved + stats.failed + stats.external = SumEnclosed(python_files)

\* C17: when Pass 2 has completed, one textDocument/didOpen notification was written to
\* the server for each scanned file.
C17_DidOpenOncePerFile ==
    (pc = "done" /\ report = "pass2")
      => Cardinality({i \in 1..Len(sent) : sent[i].method = "textDocument/didOpen"})
           = Len(python_files)

\* C18: a scan that has ended leaves no language server running: a child that was spawned
\* got the exit notification or was killed, also when start() failed after spawning.
C18_NoChildLeftRunning ==
    pc = "done" => child # "alive"

IsQuery(msg) == msg.method \in {"textDocument/definition", "textDocument/hover"}

IsRequest(msg) == msg.method \in {"initialize", "shutdown"} \/ IsQuery(msg)

\* the messages written to the current child are in lifecycle order
OrderedSent ==
    /\ sent # <<>> => sent[1].method = "initialize"
    /\ \A i \in 1..Len(sent) :
          /\ sent[i].method = "initialize" => i = 1
          /\ sent[i].method = "initialized" => i = 2
          /\ IsQuery(sent[i]) => \E j \in 1..(i - 1) : sent[j].method = "initialized"
          /\ sent[i].method = "shutdown" /\ i < Len(sent) => sent[i + 1].method = "exit"
          /\ sent[i].method = "exit" =>
                /\ i = Len(sent)
                /\ i > 1
                /\ sent[i - 1].method = "shutdown"
                /\ process = "None"
                /\ ~initialized

\* the step writes one more message to the child
Writes(method) ==
    /\ sent' # sent
    /\ sent'[Len(sent')].method = method

\* C19: the client writes initialize first, initialized only on reading an initialize
\* response that carries a result, definition and hover requests only after initialized,
\* then shutdown followed by exit; nothing is written after exit, and after exit the
\* client has no process and is not initialized.
C19_LifecycleOrder ==
    /\ []OrderedSent
    /\ [][Writes("initialized") =>
            /\ pending.op = "start"
            /\ stdout # <<>>
            /\ Head(stdout).kind = "response"
            /\ Head(stdout).id = pending.id
            /\ sent[Len(sent)].method = "initialize"]_vars

C19_Witness ==
    /\ Len(sent) = 5
    /\ sent[2].method = "initialized"
    /\ IsQuery(sent[3])
    /\ sent[4].method = "shutdown"
    /\ sent[5].method = "exit"
    /\ process = "None"

\* C20: every request carries a positive id greater than the id of every earlier request
\* of the client, the first one 1, and notifications carry no id.
C20_RequestIdsIncrease ==
    /\ [](\A i \in 1..Len(sent) :
           IF IsRequest(sent[i])
           THEN /\ sent[i].id >= 1
                /\ sent[i].id <= request_id
                /\ \A j \in 1..(i - 1) : IsRequest(sent[j]) => sent[j].id < sent[i].id
           ELSE sent[i].id = NULL)
    /\ [][/\ request_id' >= request_id
          /\ (sent' # sent /\ IsRequest(sent'[Len(sent')])) =>
                /\ sent'[Len(sent')].id > request_id
                /\ request_id = 0 => sent'[Len(sent')].id = 1]_vars

C20_Witness ==
    /\ Len(sent) = 5
    /\ sent[1].id = 1
    /\ sent[2].id = NULL
    /\ sent[3].id = 2
    /\ sent[4].id = 3
    /\ request_id = 3

\* position p comes before position q of the same file
Before(p, q) == p.line < q.line \/ (p.line = q.line /\ p.character < q.character)

StoredInFull(p) ==
    /\ HasFileRow(Db, p)
    /\ FileRow(Db, p).file_hash = ComputeFileHash(disk[p])
    /\ ModelOutline(GetFile(Db, p)) = ModelOutline(ModelTable[ScanFile(p, disk[p])])

\* the verified relations
Verified(rels) == {r \in {rels[i] : i \in 1..Len(rels)} : r.is_verified}

\* C22: an interrupt in Pass 1 leaves the rows of the files upserted before it committed
\* and complete, and of the file at hand either nothing or the whole upsert; an interrupt
\* in Pass 2 leaves every verified relation verified and every other relation unverified.
C22_InterruptKeepsCommittedWork ==
    /\ []((pc = "interrupted" /\ report = "none")
            => \A i \in 1..(idx - 1) :
                  disk[python_files[i]] # Unreadable => StoredInFull(python_files[i]))
    /\ [][(pc = "pass1" /\ pc' = "interrupted")
            => \/ UNCHANGED tables
               \/ LET p == python_files[idx]
                      out == UpsertFileOutcome(Db, p, ModelTable[ScanFile(p, disk[p])],
                                               ComputeFileHash(disk[p]), clock + 1)
                  IN /\ lastCall'.result = "ok"
                     /\ tables' = <<out.db.files, out.db.entities, out.db.metadata,
                                    out.db.relations>>]_vars
    /\ [][(pc = "pass2" /\ pc' = "interrupted")
            => /\ Verified(relations') = Verified(relations)
               /\ relations' = relations]_vars

\* Pass 1 rewrote a.py, and the interrupt came while it rewrote b.py: the rows of a.py are
\* the new ones and those of b.py the old ones
C22_Witness ==
    /\ pc = "interrupted"
    /\ report = "none"
    /\ idx = 2
    /\ lastCall.result = "raised"
    /\ disk["a.py"] = 2
    /\ StoredInFull("a.py")
    /\ disk["b.py"] = 2
    /\ HasFileRow(Db, "b.py")
    /\ FileRow(Db, "b.py").file_hash = ComputeFileHash(1)
    /\ Verified(relations) = {}

\* C23: a migration that ends with a failure after the backup was taken leaves the
\* database file in place with the content of the backup.
C23_FailedMigrationRestoresBackup ==
    (exit_code = "1" /\ backup.taken)
      => /\ db_exists
         /\ tables = backup.tables

\* C24: a migrate command with a (from, to) pair outside the catalogue ends with exit
\* code 1 without starting a scan, whether or not the database file exists.
C24_UnknownPairRefused ==
    (migration # NoMigration /\ ~RescanPair(migration.from, migration.to))
      => /\ exit_code = "1"
         /\ pc = "idle"

\* the four tables of a transaction record
TablesOf(db) == <<db.files, db.entities, db.metadata, db.relations>>

\* C25: save_file(f, m) on a path that has a file row does not raise and leaves the tables
\* as the upsert_file(f, m) it calls leaves them; no state has two file rows of one path.
C25_SaveFileOnStoredPathUpserts ==
    /\ [](\A i \in 1..Len(files) : \A j \in 1..Len(files) :
            files[i].file_path = files[j].file_path => i = j)
    /\ [][(IsCall /\ lastCall'.op = "save_file" /\ HasFileRow(Db, lastCall'.file))
            => /\ lastCall'.result = "ok"
               /\ Len(files') = Len(files)
               /\ tables' = TablesOf(UpsertFileOutcome(Db, lastCall'.file,
                                                       ModelTable[lastCall'.model],
                                                       lastCall'.hash, clock').db)]_vars

\* save_file on a stored file whose bytes had changed rewrote its rows
C25_Witness ==
    /\ lastCall.op = "save_file"
    /\ lastCall.result = "ok"
    /\ lastCall.hash = ComputeFileHash(2)
    /\ Len(files) = 2
    /\ FileRow(Db, lastCall.file).file_hash = ComputeFileHash(2)
    /\ FileRow(Db, lastCall.file).created_at < FileRow(Db, lastCall.file).updated_at

\* the entities of the file whose span contains the line
Containing(db, file_path, line) ==
    {r \in {FileEntityRows(db, file_path)[i] : i \in 1..Len(FileEntityRows(db, file_path))} :
       r.line_start <= line /\ line <= r.line_end}

\* C26: find_enclosing_entity(file_path, line) returns the id of an entity of the file
\* with the smallest span among those that contain the line, and absence exactly when no
\* entity of the file contains it.
C26_FindEnclosingIsInnermost ==
    [][(mapResult' # mapResult /\ mapResult'.op = "find_enclosing_entity")
         => LET within == Containing(Db, mapResult'.file_path, mapResult'.line)
            IN /\ ~mapResult'.raised
               /\ (mapResult'.value = NULL) <=> (within = {})
               /\ within # {}
                    => \E r \in within :
                          /\ r.id = mapResult'.value
                          /\ \A q \in within :
                                r.line_end - r.line_start <= q.line_end - q.line_start]_vars

\* the nodes of a forest, each as often as it occurs
RECURSIVE NodesOf(_)
NodesOf(forest) ==
    IF forest = <<>> THEN <<>>
    ELSE <<Head(forest)>> \o NodesOf(Head(forest).children) \o NodesOf(Tail(forest))

\* C27: get_hierarchical_intent returns a forest whose roots are the entities without
\* parent, in which each stored entity occurs once, each child under its parent, and whose
\* nodes carry exactly the verified relations of their entity.
C27_IntentForestVerifiedOnly ==
    LET forest == GetHierarchicalIntent(Db)
        nodes == NodesOf(forest)
    IN /\ {forest[i].id : i \in 1..Len(forest)}
            = {entities[i].id : i \in {j \in 1..Len(entities) : entities[j].parent_id = NULL}}
       /\ Len(nodes) = Len(entities)
       /\ {nodes[i].id : i \in 1..Len(nodes)} = EntityIds(Db)
       /\ \A i \in 1..Len(nodes) :
             /\ \A k \in 1..Len(nodes[i].children) :
                   nodes[i].children[k].parent_id = nodes[i].id
             /\ \A k \in 1..Len(nodes[i].relations) : nodes[i].relations[k].is_verified
             /\ Len(nodes[i].relations)
                  = Cardinality({k \in 1..Len(relations) :
                                   /\ relations[k].from_id = nodes[i].id
                                   /\ relations[k].is_verified})

\* a store with a method under its class, a verified call and unverified relations
C27_Witness ==
    /\ \E i \in 1..Len(entities) : entities[i].parent_id # NULL
    /\ \E k \in 1..Len(relations) : relations[k].is_verified
    /\ \E k \in 1..Len(relations) : ~relations[k].is_verified
    /\ \E i \in 1..Len(GetHierarchicalIntent(Db)) :
          /\ GetHierarchicalIntent(Db)[i].relations # <<>>
          /\ GetHierarchicalIntent(Db)[i].children = <<>>

\* the entity normalize_entity returned and the methods under it
NormalizedNodes ==
    IF normalized = NoEntity THEN {}
    ELSE {normalized} \cup {normalized.methods[i] : i \in 1..Len(normalized.methods)}

\* the name has two underscores at its start and two at its end
Framed(name) ==
    /\ Len(name) >= 2
    /\ name[1] = "_" /\ name[2] = "_"
    /\ name[Len(name) - 1] = "_" /\ name[Len(name)] = "_"

\* C28: the normalizer makes a name framed by double underscores public, any other name
\* with a leading underscore private, and every other name public; the entities row
\* carries that visibility.
C28_VisibilityByUnderscores ==
    /\ \A e \in NormalizedNodes :
          e.visibility = IF Framed(e.name) THEN "public"
                         ELSE IF e.name[1] = "_" THEN "private"
                         ELSE "public"
    /\ \A i \in 1..Len(entities) :
          entities[i].visibility = IF Framed(entities[i].name) THEN "public"
                                   ELSE IF entities[i].name[1] = "_" THEN "private"
                                   ELSE "public"

\* class __dunder__ with method _helper, normalized and stored
C28_Witness ==
    /\ normalized # NoEntity
    /\ normalized.name = <<"_", "_", "d", "u", "n", "d", "e", "r", "_", "_">>
    /\ normalized.visibility = "public"
    /\ Len(normalized.methods) = 1
    /\ normalized.methods[1].name = <<"_", "h", "e", "l", "p", "e", "r">>
    /\ normalized.methods[1].visibility = "private"
    /\ Len(entities) = 2
    /\ entities[2].visibility = "private"

\* C29 (as stated): a function is private if and only if its name begins with exactly
\* one underscore.
C29_PrivateIffOneUnderscore ==
    \A e \in NormalizedNodes :
       e.type = "function"
         => ((e.visibility = "private")
               <=> (e.name[1] = "_" /\ (Len(e.name) = 1 \/ e.name[2] # "_")))

\* C29 (amended): a function is private if and only if its name begins with an
\* underscore and is not framed by double underscores; a name with two or more leading
\* underscores that does not end with two is private as well.
C29_PrivateIffUnderscoreNotFramed ==
    \A e \in NormalizedNodes :
       e.type = "function"
         => ((e.visibility = "private") <=> (e.name[1] = "_" /\ ~Framed(e.name)))

\* the function __x, which begins with two underscores, is private
C29_Witness ==
    /\ normalized # NoEntity
    /\ normalized.type = "function"
    /\ normalized.name = <<"_", "_", "x">>
    /\ normalized.visibility = "private"

\* C30: a function whose name is in the table gets the CMM type of its entry, every other
\* function Method and every class Class; an undecorated __init__ is a public instance
\* Constructor; and the rows stored for an entity carry what the normalizer assigned.
C30_RoleFromTable ==
    /\ \A e \in NormalizedNodes :
          /\ e.type = "class" => e.cmm_type = "Class"
          /\ e.type = "function" =>
                /\ \A i \in 1..Len(DUNDER_TO_CMM) :
                      e.name = DUNDER_TO_CMM[i][1] => e.cmm_type = DUNDER_TO_CMM[i][2]
                /\ (\A i \in 1..Len(DUNDER_TO_CMM) : e.name # DUNDER_TO_CMM[i][1])
                      => e.cmm_type = "Method"
                /\ e.name = <<"_", "_", "i", "n", "i", "t", "_", "_">> =>
                      /\ e.cmm_type = "Constructor"
                      /\ e.visibility = "public"
                      /\ e.method_kind \in {"instance", "static", "class"}
                      /\ raw.type = "function" /\ raw.method_kind \in {NoneStr, "instance"}
                           => e.method_kind = "instance"
    /\ files # <<>> =>
          \A e \in NormalizedNodes :
             \E i \in 1..Len(entities) :
                /\ entities[i].name = e.name
                /\ entities[i].type = e.type
                /\ MetadataOf(Db, entities[i].id).cmm_type = e.cmm_type
    /\ \A i \in 1..Len(entities) :
          \E e \in NormalizedNodes :
             /\ e.name = entities[i].name
             /\ e.type = entities[i].type
             /\ e.visibility = entities[i].visibility
             /\ MetadataOf(Db, entities[i].id).cmm_type = e.cmm_type
             /\ MetadataOf(Db, entities[i].id).method_kind = e.method_kind

\* a class with def __init__(self): pass, stored
C30_Witness ==
    /\ Len(entities) = 2
    /\ entities[1].type = "class"
    /\ entities[2].name = <<"_", "_", "i", "n", "i", "t", "_", "_">>
    /\ entities[2].parent_id = entities[1].id
    /\ entities[2].visibility = "public"
    /\ MetadataOf(Db, entities[2].id).cmm_type = "Constructor"
    /\ MetadataOf(Db, entities[2].id).method_kind = "instance"
    /\ MetadataOf(Db, entities[1].id).cmm_type = "Class"

(***************************************************************************)
(* Claims C31..C40.                                                        *)
(***************************************************************************)
\* the file that owns entity id: the file_path of its metadata row, "" when it has none
OwnerOf(db, id) ==
    LET ms == SelectSeq(db.metadata, LAMBDA r : r.entity_id = id)
    IN IF ms = <<>> THEN "" ELSE Head(ms).file_path

ParentOf(db, id) == Head(SelectSeq(db.entities, LAMBDA r : r.id = id)).parent_id

\* C31: in every reachable state of the store the parent_id chain of every entity is
\* finite and acyclic, ends in an entity with parent_id = NULL, and stays within the
\* entities owned by the same file.
C31_ParentChainsRooted ==
    \A k \in 1..Len(entities) :
       LET e == entities[k]
           chain == {e.id} \cup Ancestors(entities, e.id, Len(entities))
       IN /\ e.id \notin Ancestors(entities, e.id, Len(entities))
          /\ chain \subseteq EntityIds(Db)
          /\ \E r \in chain : ParentOf(Db, r) = NULL
          /\ \A a \in chain : OwnerOf(Db, a) = OwnerOf(Db, e.id) /\ OwnerOf(Db, a) \in Paths

\* a file was rewritten, and each of the two files holds an entity under a parent
C31_Witness ==
    /\ lastCall.op = "upsert_file"
    /\ lastCall.result = "ok"
    /\ ~lastCall.repeat
    /\ FileRow(Db, lastCall.file).created_at # FileRow(Db, lastCall.file).updated_at
    /\ \A p \in Paths : \E k \in 1..Len(entities) :
          entities[k].parent_id # NULL /\ OwnerOf(Db, entities[k].id) = p

\* the requests the client has written that the server has not taken from its stdin
Outstanding == {i \in (served + 1)..Len(sent) : IsRequest(sent[i])}

\* C32: the value a get_definition or get_hover call returns is taken from the server
\* response whose id is the id of that call's request, never from a notification or from
\* the reply to an earlier request, and at most one request is outstanding at any time.
C32_ReplyPairedWithRequest ==
    /\ (lspResult.op \in Queries /\ lspResult.value # "None")
          => lspResult.from = lspResult.id
    /\ Cardinality(Outstanding) <= 1

\* the framed message at the head of the stream, when the stream starts with one
FramesAtHead == {frame \in Frames : StartsWith(stream, Encode(frame))}

\* C33: for a reply whose header block holds a Content-Length header together with any
\* other headers in any order, _read_response consumes the header lines and the blank line,
\* returns the N-character body announced by Content-Length, and leaves the stream at the
\* start of the next message.
C33_ReadsFramedBody ==
    [][\A frame \in FramesAtHead :
          ReadResponse =>
             /\ readResult' = [op |-> "message", value |-> frame.body]
             /\ stream' = Drop(stream, Len(Encode(frame)))]_vars

\* the last call of the store rewrote a stored file: its entities have new ids
Reingested ==
    /\ lastCall.op = "upsert_file"
    /\ lastCall.result = "ok"
    /\ HasFileRow(Db, lastCall.file)
    /\ FileRow(Db, lastCall.file).created_at # FileRow(Db, lastCall.file).updated_at

\* C34: after a file is re-ingested with changed content and clear_cache() is called,
\* find_by_location and find_enclosing_entity answer from the current store contents and
\* return only ids of entities that exist in the store.
C34_NoDestroyedEntityAfterClear ==
    [][(/\ Reingested
        /\ mapResult.op = "clear_cache"
        /\ mapResult'.op \in {"find_by_location", "find_enclosing_entity"})
         => /\ ~mapResult'.raised
            /\ mapResult'.value \in {NULL} \cup EntityIds(Db)
            /\ (mapResult'.value = NULL)
                  <=> (Containing(Db, mapResult'.file_path, mapResult'.line) = {})]_vars

NameOf(db, id) == Head(SelectSeq(db.entities, LAMBDA e : e.id = id)).name

\* the step is save_verified_relation(a, b2, r) right after save_verified_relation(a, b1, r)
\* returned, where b1 and b2 are different stored entities of one name
SecondOfTwoTargets ==
    /\ lastCall.op = "save_verified_relation"
    /\ lastCall.result = "ok"
    /\ calls' = calls + 1
    /\ lastCall'.op = "save_verified_relation"
    /\ lastCall'.from_id = lastCall.from_id
    /\ lastCall'.rel_type = lastCall.rel_type
    /\ lastCall.from_id \in EntityIds(Db)
    /\ {lastCall.to_id, lastCall'.to_id} \subseteq EntityIds(Db)
    /\ lastCall'.to_id # lastCall.to_id
    /\ NameOf(Db, lastCall'.to_id) = NameOf(Db, lastCall.to_id)

\* C35: for one caller a and relation type r, after save_verified_relation(a, b1, r)
\* followed by save_verified_relation(a, b2, r), where b1 and b2 are different entities
\* with the same name, exactly one relation row (a, name, r) exists and its to_id is b2.
C35_LastTargetOfNameWins ==
    [][SecondOfTwoTargets =>
         LET key == <<lastCall'.from_id, NameOf(Db, lastCall'.to_id), lastCall'.rel_type>>
             hit == {i \in 1..Len(relations') : RelKey(relations'[i]) = key}
         IN /\ lastCall'.result = "ok"
            /\ Cardinality(hit) = 1
            /\ \A i \in hit : relations'[i].to_id = lastCall'.to_id /\ relations'[i].is_verified
            /\ \A i \in 1..Len(relations') :
                  (relations'[i].from_id = lastCall'.from_id
                     /\ relations'[i].rel_type = lastCall'.rel_type)
                    => relations'[i].to_id # lastCall.to_id]_vars

\* two calls were made, the last one named a target that has a namesake, and the one
\* verified row of the store points to the target of the last call
C35_Witness ==
    /\ calls = 2
    /\ lastCall.op = "save_verified_relation"
    /\ lastCall.result = "ok"
    /\ ~lastCall.repeat
    /\ Len(relations) = 1
    /\ relations[1].from_id = lastCall.from_id
    /\ relations[1].to_id = lastCall.to_id
    /\ relations[1].is_verified
    /\ \E e \in EntityIds(Db) :
          e # lastCall.to_id /\ NameOf(Db, e) = NameOf(Db, lastCall.to_id)

\* C36: upsert_file and save_file terminate on every input and store state, and the
\* delegation between them is bounded: upsert_file hands over to save_file at most once and
\* save_file hands over to upsert_file at most once (at most three of the calls read the
\* time), also when the integrity violation raised inside save_file comes from something
\* other than a duplicate file_path.
C36_DelegationBounded ==
    [][(IsCall /\ lastCall'.op \in {"upsert_file", "save_file"})
         => /\ lastCall'.result # "RecursionError"
            /\ clock' - clock <= 3]_vars

\* what belongs to file g in a store: its file row, the entities and metadata rows it owns
\* and the relation rows that start at one of its entities
Belongings(db, g) ==
    [files |-> SelectSeq(db.files, LAMBDA r : r.file_path = g),
     entities |-> SelectSeq(db.entities, LAMBDA r : r.id \in OwnedIds(db, g)),
     metadata |-> SelectSeq(db.metadata, LAMBDA r : r.file_path = g),
     relations |-> {db.relations[i] : i \in {j \in 1..Len(db.relations) :
                                               db.relations[j].from_id \in OwnedIds(db, g)}}]

\* C37: upsert_file(f, m) and save_file(f, m) change nothing that belongs to another file
\* g: g's file row, the entities and metadata rows owned by g (ids and type_hint included)
\* and the set of relation rows whose from_id belongs to g are the same before and after.
C37_OtherFilesUntouched ==
    [][(IsCall /\ lastCall'.op \in {"upsert_file", "save_file"})
         => \A g \in Paths \ {lastCall'.file} : Belongings(Db', g) = Belongings(Db, g)]_vars

\* a file was rewritten while the other file owns entities, a type hint and relations
C37_Witness ==
    /\ Reingested
    /\ \E g \in Paths \ {lastCall.file} :
          /\ Belongings(Db, g).files # <<>>
          /\ Belongings(Db, g).entities # <<>>
          /\ Belongings(Db, g).relations # {}
    /\ \E i \in 1..Len(entities) : OwnerOf(Db, entities[i].id) = lastCall.file

\* the parent of every entity id of the table, as a table; NULL has no parent
ParentMap(ents) ==
    [id \in {ents[i].id : i \in 1..Len(ents)} \cup {NULL} |->
       IF id = NULL THEN NULL
       ELSE ents[CHOOSE i \in 1..Len(ents) : ents[i].id = id].parent_id] @@ <<>>

\* g, then f, as a table: the id f leads to from where g leads
Compose(f, g) == [id \in DOMAIN g |-> IF g[id] \in DOMAIN f THEN f[g[id]] ELSE NULL] @@ <<>>

\* the steps-th ancestor of every id under the parent map f, NULL where the chain is
\* shorter; computed by halving, so that a chain of any length is followed
RECURSIVE AncestorMap(_, _)
AncestorMap(f, steps) ==
    IF steps = 0 THEN [id \in DOMAIN f |-> id] @@ <<>>
    ELSE IF steps % 2 = 1 THEN Compose(f, AncestorMap(f, steps - 1))
    ELSE CHOOSE c \in {Compose(half, half) : half \in {AncestorMap(f, steps \div 2)}} : TRUE

\* the entities of the table that have at least steps ancestors
WithAncestors(ents, steps) ==
    UNION {{id \in DOMAIN anc : id # NULL /\ anc[id] # NULL} :
             anc \in {AncestorMap(f, steps) : f \in {ParentMap(ents)}}}

\* the entities named name that file owns
StoredAs(db, file, name) ==
    UNION {{db.entities[i].id : i \in {j \in 1..Len(db.entities) :
                                          /\ db.entities[j].name = name
                                          /\ db.entities[j].id \in owned}} :
             owned \in {{db.metadata[i].entity_id :
                           i \in {j \in 1..Len(db.metadata) :
                                    db.metadata[j].file_path = file}}}}

\* the rows file owns are those of a nest of levels functions cut below depth MaxDepth,
\* and those of the class after it when there is one: the functions f form one chain from
\* a top-level f down, g hangs under the last f of an uncut chain, h under g
NestStoredCut(db, file, levels, tail) ==
    \E parent \in {ParentMap(db.entities)} :
    \E fs \in {StoredAs(db, file, "f")} :
    \E gs \in {StoredAs(db, file, "g")} :
       /\ Cardinality(fs) = IF levels > MaxDepth THEN MaxDepth + 1 ELSE levels
       /\ Cardinality({e \in fs : parent[e] = NULL}) = 1
       /\ \A e \in fs : parent[e] \in fs \cup {NULL}
       /\ Cardinality({parent[e] : e \in fs}) = Cardinality(fs)
       /\ Cardinality(gs) = IF levels <= MaxDepth THEN 1 ELSE 0
       /\ \A e \in gs : parent[e] \in fs \ {parent[x] : x \in fs}
       /\ Cardinality(StoredAs(db, file, "h")) = IF levels + 1 <= MaxDepth THEN 1 ELSE 0
       /\ \A e \in StoredAs(db, file, "h") : parent[e] \in gs
       /\ Cardinality(StoredAs(db, file, "Calculator")) = IF tail THEN 1 ELSE 0
       /\ Cardinality(StoredAs(db, file, "add")) = IF tail THEN 1 ELSE 0
       /\ \A e \in StoredAs(db, file, "add") : parent[e] \in StoredAs(db, file, "Calculator")

\* C38: persisting a model keeps its entities down to nesting depth 100 and drops every
\* entity nested deeper together with its subtree, without raising and without affecting
\* the persistence of the remaining entities; no stored entity has more than 100 ancestors.
C38_DepthLimitTruncates ==
    /\ [](WithAncestors(entities, MaxDepth + 1) = {})
    /\ [][IsCall =>
            /\ lastCall'.result = "ok"
            /\ Wrote => NestStoredCut(Db', lastCall'.file, lastCall'.model[1],
                                      lastCall'.model[2])]_vars

\* a model nested deeper than the limit was stored with a class after the nest: an entity
\* with 100 ancestors is stored, and so is the method of the class
C38_Witness ==
    /\ lastCall.op \in {"upsert_file", "save_file"}
    /\ lastCall.result = "ok"
    /\ lastCall.model[1] > MaxDepth
    /\ lastCall.model[2]
    /\ WithAncestors(entities, MaxDepth) # {}
    /\ StoredAs(Db, lastCall.file, "add") # {}
\* the function entities of a model: its top-level functions and the methods of its classes
FunctionEntities(ents) ==
    {ents[i] : i \in {j \in 1..Len(ents) : ents[j].type = "function"}}
    \cup UNION {{ents[i].methods[k] : k \in 1..Len(ents[i].methods)} : i \in 1..Len(ents)}

\* the calls relations of an entity
CallsOf(entity) == SelectSeq(entity.dependencies, LAMBDA d : d.rel_type = "calls")

\* C39: no call site returned by extract_call_sites and no calls relation emitted by
\* scan_file has a name of the stop list, and scan_file emits at most one calls relation
\* per distinct name for each function.
C39_StopListOncePerName ==
    /\ call_sites.op = "extract_call_sites" =>
          \A i \in 1..Len(call_sites.value) : call_sites.value[i].name \notin PYTHON_BUILTINS
    /\ cmm.op = "scan_file" =>
          \A e \in FunctionEntities(cmm.value) :
             \A i \in 1..Len(CallsOf(e)) :
                /\ CallsOf(e)[i].name \notin PYTHON_BUILTINS
                /\ \A j \in 1..Len(CallsOf(e)) :
                      CallsOf(e)[i].name = CallsOf(e)[j].name => i = j

\* how many entities of the list have the name
Occurrences(ents, name) == Cardinality({i \in 1..Len(ents) : ents[i].name = name})

\* the nearest definition around definition i of the file is a class
IsMethod(src, i) ==
    /\ src[i].type = "function"
    /\ src[i].enclosing # 0
    /\ src[src[i].enclosing].type = "class"

\* C40: in the model scan_file returns every definition of the file appears exactly once:
\* a function whose nearest enclosing definition is a class only in the methods of that
\* class, every other definition only as a top-level entity.
C40_EachDefinitionOnce ==
    cmm.op = "scan_file" =>
       \A i \in 1..Len(source) :
          /\ Occurrences(cmm.value, DefName(i)) = IF IsMethod(source, i) THEN 0 ELSE 1
          /\ \A k \in 1..Len(cmm.value) :
                /\ Occurrences(cmm.value[k].methods, DefName(i))
                     = IF /\ IsMethod(source, i)
                          /\ cmm.value[k].name = DefName(source[i].enclosing)
                       THEN 1 ELSE 0
                /\ \A m \in 1..Len(cmm.value[k].methods) :
                      cmm.value[k].methods[m].methods = <<>>
          /\ IsMethod(source, i) =>
                \E k \in 1..Len(cmm.value) :
                   cmm.value[k].name = DefName(source[i].enclosing)

\* a file with a class, a method of it and a function nested in the method was scanned
C40_Witness ==
    /\ cmm.op = "scan_file"
    /\ Len(source) = 3
    /\ source[1].type = "class"
    /\ source[2].type = "function" /\ source[2].enclosing = 1
    /\ source[3].type = "function" /\ source[3].enclosing = 2
    /\ Len(cmm.value) = 2
====
